---- MODULE Spec2Model ----
(***************************************************************************)
(* Model of the caseflow CSV import pipeline: the zustand import store,    *)
(* the ImportPage validator, the BatchSubmit component (startSubmission,   *)
(* cancelSubmission, retryFailed) and the import / batch API routes it     *)
(* talks to.  Strings are sequences of one-character strings.              *)
(***************************************************************************)
EXTENDS Integers, Sequences, FiniteSets, TLC

VARIABLES
    rawData,           \* store.rawData: CSVRow[]
    filename,          \* store.filename: string | null
    validationErrors,  \* store.validationErrors
    importId,          \* store.importId: string | null   (0 = null)
    progress,          \* store.progress: ImportProgress | null
    batchResults,      \* store.batchResults
    isSubmitting,      \* store.isSubmitting
    step,              \* ImportPage useState<Step>
    isCancelled,       \* BatchSubmit useState(false)
    runs,              \* the invocations of startSubmission (async frames)
    imports,           \* server: table Import, id = position
    cases,             \* server: table Case, the caseId column
    fixed,             \* FixAllToolbar: the last operation and the count it returned
    dropzone,          \* CSVDropzone useState: error, and the file it was given
    exported,          \* BatchSubmit: the lines of the last failed-rows download
    apiResponse,       \* the last response to a request of an API client
    journal,           \* server: the numbers of rows created in CaseHistory,
                       \* CaseNote and AuditLog, and the cases a PATCH renamed
    inflight,          \* server: the case-creation handlers that run
                       \* concurrently, and the caseIds they inserted
    budget             \* remaining bounded environment events

vars == <<rawData, filename, validationErrors, importId, progress,
          batchResults, isSubmitting, step, isCancelled, runs, imports,
          cases, fixed, dropzone, exported, apiResponse, journal, inflight,
          budget>>

storeVars == <<rawData, filename, validationErrors, importId, progress,
               batchResults, isSubmitting>>

\* component state and outputs outside the store
viewVars == <<fixed, dropzone, exported, apiResponse>>

\* server state the import page's own requests do not touch
serverVars == <<journal, inflight>>

\* ----------------------------------------------------------------- bounds
\* a behaviour explores one usage pattern (Scenarios) within its budget of
\* submissions, cell edits and transport failures
MaxRows == 250
SmallRows == 3
MaxRuns == 2
MaxEdits == 1
MaxNetFailures == 2

\* ------------------------------------------------------- program constants
BATCH_SIZE == 100
MaxNameLen == 255

\* null / undefined of a string-valued field
NULL == <<"null">>

\* store.progress === null
NoProgress == [isNull |-> TRUE]

\* ------------------------------------------------------------ text helpers
DigitChars == <<"0", "1", "2", "3", "4", "5", "6", "7", "8", "9">>

Digits == {DigitChars[k] : k \in 1..10}

UpperChars == {"A", "B", "C", "D", "E", "F", "G", "H", "I", "J", "K", "L", "M",
               "N", "O", "P", "Q", "R", "S", "T", "U", "V", "W", "X", "Y", "Z"}

LowerChars == {"a", "b", "c", "d", "e", "f", "g", "h", "i", "j", "k", "l", "m",
               "n", "o", "p", "q", "r", "s", "t", "u", "v", "w", "x", "y", "z"}

\* [A-Za-z0-9-]
CaseIdChars == UpperChars \cup LowerChars \cup Digits \cup {"-"}

\* /^[A-Za-z0-9-]+$/
CaseIdRegex(s) ==
    /\ Len(s) >= 1
    /\ \A k \in 1..Len(s) : s[k] \in CaseIdChars

DigitVal(c) == CHOOSE d \in 0..9 : DigitChars[d + 1] = c

RECURSIVE NatToChars(_)
NatToChars(n) ==
    IF n < 10 THEN <<DigitChars[n + 1]>>
    ELSE NatToChars(n \div 10) \o <<DigitChars[(n % 10) + 1]>>

\* the case identifier the generated file gives to the row at position i
CaseIdOf(i) == <<"C", "-">> \o NatToChars(i)

TAX == <<"T", "A", "X">>
LICENSE == <<"L", "I", "C", "E", "N", "S", "E">>
PERMIT == <<"P", "E", "R", "M", "I", "T">>
LOW == <<"L", "O", "W">>
MEDIUM == <<"M", "E", "D", "I", "U", "M">>
HIGH == <<"H", "I", "G", "H">>
FOO == <<"F", "O", "O">>

CategoryEnum == {TAX, LICENSE, PERMIT}
PriorityEnum == {LOW, MEDIUM, HIGH}

\* new Date(val) for the ISO form YYYY-MM-DD; anything else in the input
\* domain of the model is not a date (NaN)
NaN == -1

DateParse(s) ==
    IF /\ Len(s) = 10
       /\ s[5] = "-" /\ s[8] = "-"
       /\ \A k \in {1, 2, 3, 4, 6, 7, 9, 10} : s[k] \in Digits
    THEN LET y == 1000 * DigitVal(s[1]) + 100 * DigitVal(s[2])
                  + 10 * DigitVal(s[3]) + DigitVal(s[4])
             m == 10 * DigitVal(s[6]) + DigitVal(s[7])
             d == 10 * DigitVal(s[9]) + DigitVal(s[10])
         IN  IF m \in 1..12 /\ d \in 1..31 THEN (y * 10000) + (m * 100) + d
             ELSE NaN
    ELSE NaN

MinDate == 19000101
Today == 20261102

\* z.string().email(): local@domain.tld over the model's characters
IsEmail(s) ==
    \E a \in 2..(Len(s) - 3) :
        /\ s[a] = "@"
        /\ \A k \in 1..Len(s) : (s[k] = "@") => (k = a)
        /\ \E p \in (a + 2)..(Len(s) - 1) : s[p] = "."
        /\ \A k \in 1..Len(s) : s[k] # " "

\* ------------------------------------------------- normalization helpers
UpperSeq == <<"A", "B", "C", "D", "E", "F", "G", "H", "I", "J", "K", "L", "M",
              "N", "O", "P", "Q", "R", "S", "T", "U", "V", "W", "X", "Y", "Z">>

LowerSeq == <<"a", "b", "c", "d", "e", "f", "g", "h", "i", "j", "k", "l", "m",
              "n", "o", "p", "q", "r", "s", "t", "u", "v", "w", "x", "y", "z">>

\* String.prototype.toUpperCase / toLowerCase on one character
ToUpper(c) ==
    IF c \in LowerChars THEN UpperSeq[CHOOSE k \in 1..26 : LowerSeq[k] = c] ELSE c

ToLower(c) ==
    IF c \in UpperChars THEN LowerSeq[CHOOSE k \in 1..26 : UpperSeq[k] = c] ELSE c

\* the white space String.prototype.trim and /\s+/ know, as far as the
\* model's files contain it
Whitespace == {" ", "\t"}

\* a trim that strips the leading white space only
trimStart(s) ==
    LET ks == {k \in 1..Len(s) : s[k] \notin Whitespace}
    IN  IF ks = {} THEN <<>>
        ELSE SubSeq(s, CHOOSE k \in ks : \A j \in ks : k <= j, Len(s))

\* String.prototype.trim
trim(s) ==
    LET ks == {k \in 1..Len(s) : s[k] \notin Whitespace}
    IN  IF ks = {} THEN <<>>
        ELSE SubSeq(s, CHOOSE k \in ks : \A j \in ks : k <= j,
                       CHOOSE k \in ks : \A j \in ks : k >= j)

\* titleCase: trim, split at runs of white space, capitalize each word, join
\* with one space
titleCase(name) ==
    LET t == trim(name)
        keep == {k \in 1..Len(t) : t[k] \notin Whitespace \/ t[k - 1] \notin Whitespace}
        nth(i) == CHOOSE k \in keep : Cardinality({j \in keep : j <= k}) = i
        out(k) == IF t[k] \in Whitespace THEN " "
                  ELSE IF k = 1 \/ t[k - 1] \in Whitespace THEN ToUpper(t[k])
                  ELSE ToLower(t[k])
    IN  [i \in 1..Cardinality(keep) |-> out(nth(i))]

\* normalizePhone with libphonenumber-js and default country IN, for the
\* numbers of the model's files: a national mobile number is ten digits
\* starting with 6..9, the international form is +91 followed by it; spaces
\* and hyphens between the digits are formatting.  NULL when it is no number
normalizePhone(phone) ==
    LET cleaned == trim(phone)
        digits == SelectSeq(cleaned, LAMBDA c : c \in Digits)
        wellFormed == \A k \in 1..Len(cleaned) :
                         \/ cleaned[k] \in Digits \cup {" ", "-"}
                         \/ (k = 1 /\ cleaned[k] = "+")
        mobile(d) == Len(d) = 10 /\ d[1] \in {"6", "7", "8", "9"}
    IN  IF cleaned = <<>> \/ ~wellFormed THEN NULL
        ELSE IF cleaned[1] # "+" /\ mobile(digits) THEN <<"+", "9", "1">> \o digits
        ELSE IF /\ cleaned[1] = "+"
                /\ Len(digits) = 12
                /\ SubSeq(digits, 1, 2) = <<"9", "1">>
                /\ mobile(SubSeq(digits, 3, 12))
             THEN <<"+">> \o digits
        ELSE NULL

\* ------------------------------------------------------------- validation
Err(row, field, value, message) ==
    [row |-> row, field |-> field, value |-> value, message |-> message]

\* a range check without the upper end
DobInRangeNoMax(date) == date >= MinDate

\* date >= minDate && date <= maxDate, of a date that is not NaN
DobInRange(date) == date >= MinDate /\ date <= Today

\* CaseSchema.safeParse(...).error.issues, as (field, message) pairs in
\* schema-key order
CaseSchemaIssues(c) ==
    LET date == DateParse(c.dob)
    IN
    (IF Len(c.caseId) < 1 THEN <<<<"caseId", "Case ID is required">>>> ELSE <<>>)
    \o (IF ~CaseIdRegex(c.caseId)
        THEN <<<<"caseId", "Case ID must be alphanumeric with hyphens">>>> ELSE <<>>)
    \o (IF Len(c.applicantName) < 1
        THEN <<<<"applicantName", "Applicant name is required">>>> ELSE <<>>)
    \o (IF Len(c.applicantName) > MaxNameLen
        THEN <<<<"applicantName", "Applicant name must be less than 255 characters">>>>
        ELSE <<>>)
    \o (IF date = NaN THEN <<<<"dob", "Invalid date format">>>> ELSE <<>>)
    \o (IF date = NaN \/ ~DobInRange(date)
        THEN <<<<"dob", "Date of birth must be between 1900 and today">>>> ELSE <<>>)
    \o (IF c.email \notin {NULL, <<>>} /\ ~IsEmail(c.email)
        THEN <<<<"email", "Invalid email format">>>> ELSE <<>>)
    \o (IF c.category \notin CategoryEnum
        THEN <<<<"category", "Invalid enum value">>>> ELSE <<>>)
    \o (IF c.priority # NULL /\ c.priority \notin PriorityEnum
        THEN <<<<"priority", "Invalid enum value">>>> ELSE <<>>)

\* row.x || undefined
OrUndefined(s) == IF s = <<>> THEN NULL ELSE s

MappedField(f) ==
    IF f = "caseId" THEN "case_id"
    ELSE IF f = "applicantName" THEN "applicant_name" ELSE f

\* a seenIds that keeps the last position of each case id instead of the first
SeenIdsLast(rows, lo, hi) ==
    LET ids == {rows[k + 1].case_id : k \in lo..hi} \ {<<>>}
    IN  [id \in ids |->
            CHOOSE k \in lo..hi :
                /\ rows[k + 1].case_id = id
                /\ \A j \in (k + 1)..hi : rows[j + 1].case_id # id]

\* seenIds after the forEach has passed the positions lo..hi: each non-empty
\* case id mapped to the first position holding it (split in halves to keep
\* the evaluation shallow; the earlier half wins)
RECURSIVE SeenIds(_, _, _)
SeenIds(rows, lo, hi) ==
    IF lo > hi THEN <<>>
    ELSE IF lo = hi
         THEN IF rows[lo + 1].case_id # <<>> THEN (rows[lo + 1].case_id :> lo) ELSE <<>>
    ELSE LET mid == (lo + hi) \div 2
         IN  SeenIds(rows, lo, mid) @@ SeenIds(rows, mid + 1, hi)

\* the errors validateData pushes for the row at array position index; seen
\* is seenIds after the whole pass, so seenIds.has(caseId) held when the row
\* was visited iff the first position of its case id is an earlier one
RowErrors(rows, index, seen) ==
    LET row == rows[index + 1]
        caseId == row.case_id
        issues == CaseSchemaIssues([caseId |-> row.case_id,
                                    applicantName |-> row.applicant_name,
                                    dob |-> row.dob,
                                    email |-> OrUndefined(row.email),
                                    phone |-> OrUndefined(row.phone),
                                    category |-> row.category,
                                    priority |-> OrUndefined(row.priority)])
    IN  (IF caseId # <<>> /\ seen[caseId] < index
         THEN <<Err(index, "case_id", caseId,
                    "Duplicate case ID (first seen at row "
                        \o ToString(seen[caseId] + 1) \o ")")>>
         ELSE <<>>)
        \o [k \in 1..Len(issues) |->
               Err(index, MappedField(issues[k][1]),
                   row[MappedField(issues[k][1])], issues[k][2])]
        \o (IF row.category # <<>> /\ row.category \notin CategoryEnum
            THEN <<Err(index, "category", row.category,
                       "Category must be TAX, LICENSE, or PERMIT")>>
            ELSE <<>>)
        \o (IF row.priority # <<>> /\ row.priority \notin PriorityEnum
            THEN <<Err(index, "priority", row.priority,
                       "Priority must be LOW, MEDIUM, or HIGH")>>
            ELSE <<>>)

\* rawData.forEach over the positions lo..hi, in order (split in halves to
\* keep the evaluation shallow)
RECURSIVE ValidateRange(_, _, _, _)
ValidateRange(rows, lo, hi, seen) ==
    IF lo > hi THEN <<>>
    ELSE IF lo = hi THEN RowErrors(rows, lo, seen)
    ELSE LET mid == (lo + hi) \div 2
         IN  ValidateRange(rows, lo, mid, seen) \o ValidateRange(rows, mid + 1, hi, seen)

\* ImportPage.validateData: the list handed to setValidationErrors
validateData(rows) ==
    LET seen == SeenIds(rows, 0, Len(rows) - 1)
    IN  ValidateRange(rows, 0, Len(rows) - 1, seen)

\* an effect that validates a row set once and keeps the list afterwards
ValidationEffectOnce(rows, oldErrors) ==
    IF Len(rows) > 0 /\ oldErrors = <<>> THEN validateData(rows) ELSE oldErrors

\* the useEffect of ImportPage: validate only a non-empty row set
ValidationEffect(rows, oldErrors) ==
    IF Len(rows) > 0 THEN validateData(rows) ELSE oldErrors

\* validRows without the error filter: every row counts as submittable
validRowsUnfiltered(rows, errors) == rows

\* BatchSubmit.validRows
validRows(rows, errors) ==
    LET bad == {errors[k].row : k \in 1..Len(errors)}
    IN  SelectSeq(rows, LAMBDA row : row._rowIndex \notin bad)

\* ------------------------------------------------------- uploaded files
DOB_OK == <<"1", "9", "9", "0", "-", "0", "3", "-", "1", "4">>

\* CSVDropzone.parseFile (complete): the CSVRow built from one parsed record
CsvRow(index, caseId, category) ==
    [_rowIndex |-> index, case_id |-> caseId, applicant_name |-> <<"a">>,
     dob |-> DOB_OK, email |-> <<>>, phone |-> <<>>, category |-> category,
     priority |-> <<>>]

\* a file of n records; the records at the positions in bad carry an unknown
\* category, those at the positions in dup repeat the case id of record 0
MkFile(n, bad, dup) ==
    [k \in 1..n |->
        CsvRow(k - 1,
               IF (k - 1) \in dup THEN CaseIdOf(0) ELSE CaseIdOf(k - 1),
               IF (k - 1) \in bad THEN FOO ELSE TAX)]

LargeFiles == {MkFile(BATCH_SIZE + 1, {1}, {}), MkFile(MaxRows, {}, {})}

SmallFiles ==
    {MkFile(SmallRows, {}, {}), MkFile(SmallRows, {1}, {}), MkFile(SmallRows, {}, {2})}

\* a file whose cells need fixing: padded values, a name in lower case, phone
\* numbers in national and international form, one that is no number, an
\* unknown category and an unknown priority
MessyFile ==
    <<[CsvRow(0, <<" ", "C", "-", "0">>, TAX) EXCEPT
          !.applicant_name = <<" ", "J", "o", " ", "D", "o">>,
          !.phone = <<"+", "9", "1", "9", "8", "7", "6", "5", "4", "3", "2", "1", "0", " ">>],
      [CsvRow(1, CaseIdOf(1), TAX) EXCEPT
          !.applicant_name = <<"a", "l", " ", " ", "b", "O">>,
          !.phone = <<"9", "8", "7", "6", "5", "-", "4", "3", "2", "1", "0">>,
          !.priority = HIGH],
      [CsvRow(2, CaseIdOf(2), FOO) EXCEPT !.priority = <<"U", "R", "G">>],
      [CsvRow(3, CaseIdOf(3), TAX) EXCEPT !.phone = <<"1", "2", "a", "b">>]>>

\* a file with a column _rowIndex of its own: ...row of parseFile puts the
\* text of that column over the index parseFile assigned
IndexedFile ==
    [k \in 1..SmallRows |->
        [CsvRow(k - 1, CaseIdOf(k - 1), TAX) EXCEPT !._rowIndex = <<"7">>]]

\* the files a user of the usage pattern uploads
Files(kind) ==
    IF kind = "long" THEN LargeFiles
    ELSE IF kind = "unreliable" THEN {MkFile(MaxRows, {}, {})}
    ELSE IF kind \in {"sessions", "export"} THEN {MkFile(SmallRows, {}, {})}
    ELSE IF kind = "review" THEN {MessyFile, MkFile(SmallRows, {}, {1, 2})}
    ELSE IF kind \in {"api", "concurrent"} THEN {}
    ELSE IF kind = "store" THEN {IndexedFile}
    ELSE SmallFiles

\* File.name and File.size of the files offered to the dropzone
CSV_NAME == <<"f", ".", "c", "s", "v">>
TXT_NAME == <<"f", ".", "t", "x", "t">>
UPPER_NAME == <<"f", ".", "C", "S", "V">>

MAX_FILE_SIZE == 50 * 1024 * 1024

FileMetas(kind) ==
    IF kind = "review"
    THEN {[name |-> n, size |-> z] :
             n \in {CSV_NAME, TXT_NAME, UPPER_NAME},
             z \in {MAX_FILE_SIZE - 1, MAX_FILE_SIZE, MAX_FILE_SIZE + 1}}
    ELSE {[name |-> CSV_NAME, size |-> 1024]}

\* the usage patterns:
\*   long        a large file, submitted, possibly cancelled or left for review
\*   unreliable  a large file, submitted and possibly cancelled while requests
\*               fail at the transport level
\*   retry       a small file that is edited, submitted, cancelled and retried
\*   sessions    small files, with a new import started at any moment
\*   review      files of any name and size are offered; the accepted one is
\*               edited and fixed with the toolbar, then submitted
\*   export      a small file, submitted and retried while requests fail; the
\*               failed rows are downloaded
\*   api         an API client posts batches to /api/cases/batch directly
Scenarios ==
    {[kind |-> "long", runs |-> MaxRuns, edits |-> 0, netFailures |-> 0],
     [kind |-> "unreliable", runs |-> MaxRuns, edits |-> 0,
      netFailures |-> MaxNetFailures],
     [kind |-> "retry", runs |-> MaxRuns, edits |-> MaxEdits, netFailures |-> 0],
     [kind |-> "sessions", runs |-> MaxRuns, edits |-> 0, netFailures |-> 0],
     [kind |-> "review", runs |-> MaxRuns, edits |-> MaxEdits + 1, netFailures |-> 0],
     [kind |-> "export", runs |-> MaxRuns, edits |-> 0, netFailures |-> MaxNetFailures],
     [kind |-> "api", runs |-> MaxRuns, edits |-> 0, netFailures |-> 0],
     [kind |-> "concurrent", runs |-> MaxRuns, edits |-> 0, netFailures |-> 0],
     [kind |-> "store", runs |-> 0, edits |-> MaxEdits + 1, netFailures |-> 0]}

\* case ids present in the Case table before the import starts
ServerSeeds == {{}, {CaseIdOf(0)}}

\* ------------------------------------------------------------ store actions
\* useImportStore.setRawData
StoreSetRawData(data, name) ==
    [rawData |-> [k \in 1..Len(data) |-> [data[k] EXCEPT !._rowIndex = k - 1]],
     filename |-> name,
     validationErrors |-> <<>>,
     batchResults |-> <<>>,
     progress |-> NoProgress]

\* an updateRow that writes the field of every row
StoreUpdateRowEveryRow(rows, rowIndex, field, value) ==
    [k \in 1..Len(rows) |-> [rows[k] EXCEPT ![field] = value]]

\* useImportStore.updateRow
StoreUpdateRow(rows, rowIndex, field, value) ==
    [k \in 1..Len(rows) |->
        IF rows[k]._rowIndex = rowIndex THEN [rows[k] EXCEPT ![field] = value]
        ELSE rows[k]]

\* useImportStore.updateMultipleRows: the updates applied one after the
\* other, each to the first row with its rowIndex
RECURSIVE StoreUpdateMultipleRows(_, _)
StoreUpdateMultipleRows(rows, updates) ==
    IF updates = <<>> THEN rows
    ELSE LET u == Head(updates)
             hits == {k \in 1..Len(rows) : rows[k]._rowIndex = u.rowIndex}
             index == IF hits = {} THEN 0 ELSE CHOOSE k \in hits : \A j \in hits : k <= j
             newData == IF index = 0 THEN rows
                        ELSE [rows EXCEPT ![index] = [@ EXCEPT ![u.field] = u.value]]
         IN  StoreUpdateMultipleRows(newData, Tail(updates))

\* ------------------------------------------------------------ FixAllToolbar
Update(rowIndex, field, value) == [rowIndex |-> rowIndex, field |-> field, value |-> value]

\* updates.push over rawData.forEach: the per-row updates in row order
RECURSIVE Concat(_)
Concat(seqs) == IF seqs = <<>> THEN <<>> ELSE Head(seqs) \o Concat(Tail(seqs))

TrimFields == <<"case_id", "applicant_name", "email", "phone">>

\* the updates trimWhitespace computes from the row set data
trimUpdates(data) ==
    LET PerRow(row) ==
            LET changed == SelectSeq(TrimFields, LAMBDA f : row[f] # trim(row[f]))
            IN  [i \in 1..Len(changed) |->
                    Update(row._rowIndex, changed[i], trim(row[changed[i]]))]
    IN  Concat([k \in 1..Len(data) |-> PerRow(data[k])])

\* the updates titleCaseNames computes from the row set data
titleCaseUpdates(data) ==
    LET PerRow(row) ==
            IF trim(row.applicant_name) # <<>>
               /\ titleCase(row.applicant_name) # row.applicant_name
            THEN <<Update(row._rowIndex, "applicant_name", titleCase(row.applicant_name))>>
            ELSE <<>>
    IN  Concat([k \in 1..Len(data) |-> PerRow(data[k])])

\* the updates normalizePhones computes from the row set data
normalizePhonesUpdates(data) ==
    LET PerRow(row) ==
            IF /\ trim(row.phone) # <<>>
               /\ normalizePhone(row.phone) # NULL
               /\ normalizePhone(row.phone) # row.phone
            THEN <<Update(row._rowIndex, "phone", normalizePhone(row.phone))>>
            ELSE <<>>
    IN  Concat([k \in 1..Len(data) |-> PerRow(data[k])])

\* the updates setDefaultPriority computes from the row set data
defaultPriorityUpdates(data) ==
    LET PerRow(row) ==
            IF row.priority = <<>> \/ trim(row.priority) = <<>>
            THEN <<Update(row._rowIndex, "priority", LOW)>>
            ELSE <<>>
    IN  Concat([k \in 1..Len(data) |-> PerRow(data[k])])

\* one fix operation: the updates are computed from the row set of the
\* render the callback was created in and applied to the store as it is now
ApplyFix(store, updates) ==
    IF Len(updates) > 0 THEN StoreUpdateMultipleRows(store, updates) ELSE store

\* a single operation: the store it leaves and the updates.length it returns
FixResult(data, updates) == [rows |-> ApplyFix(data, updates), count |-> Len(updates)]

\* fixAll: the four callbacks of one render are called in a row, so each
\* computes its updates from that render's rawData
fixAllResult(data) ==
    LET u1 == trimUpdates(data)
        u2 == titleCaseUpdates(data)
        u3 == normalizePhonesUpdates(data)
        u4 == defaultPriorityUpdates(data)
    IN  [rows |-> ApplyFix(ApplyFix(ApplyFix(ApplyFix(data, u1), u2), u3), u4),
         count |-> Len(u1) + Len(u2) + Len(u3) + Len(u4)]

\* ------------------------------------------------------- BatchSubmit helpers
Min(a, b) == IF a < b THEN a ELSE b

\* Math.ceil(validRows.length / BATCH_SIZE)
TotalBatches(n) == (n + BATCH_SIZE - 1) \div BATCH_SIZE

BatchStart(i) == i * BATCH_SIZE

BatchEnd(run, i) == Min(BatchStart(i) + BATCH_SIZE, Len(run.validRows))

\* validRows.slice(start, end)
BatchSlice(run, i) == SubSeq(run.validRows, BatchStart(i) + 1, BatchEnd(run, i))

\* row.x || null
OrNull(s) == IF s = <<>> THEN NULL ELSE s

\* batch.map((row) => ({ caseId: row.case_id, ... }))
CasePayload(row) ==
    [caseId |-> row.case_id, applicantName |-> row.applicant_name,
     dob |-> row.dob, email |-> OrNull(row.email), phone |-> OrNull(row.phone),
     category |-> row.category,
     priority |-> IF row.priority = <<>> THEN LOW ELSE row.priority]

\* a batch request that is not tagged with the import record
BatchRequestUntagged(run, i) ==
    LET batch == BatchSlice(run, i)
    IN  [cases |-> [k \in 1..Len(batch) |-> CasePayload(batch[k])],
         importId |-> 0]

\* the body of POST /api/cases/batch for batch i
BatchRequest(run, i) ==
    LET batch == BatchSlice(run, i)
    IN  [cases |-> [k \in 1..Len(batch) |-> CasePayload(batch[k])],
         importId |-> run.importRecord]

\* a catch branch that leaves out the last row of the batch
FailedResultsSkipsLast(batch) ==
    [k \in 1..(Len(batch) - 1) |->
        [success |-> FALSE, caseId |-> batch[k].case_id,
         error |-> "Network error - please retry", id |-> 0]]

\* the catch branch: every row of the batch marked failed
FailedResults(batch) ==
    [k \in 1..Len(batch) |->
        [success |-> FALSE, caseId |-> batch[k].case_id,
         error |-> "Network error - please retry", id |-> 0]]

CountSuccess(results) == Cardinality({k \in 1..Len(results) : results[k].success})

CountFailed(results) == Cardinality({k \in 1..Len(results) : ~results[k].success})

\* progress that counts a full batch even when the last batch is short
BatchProgressFullBatch(run, i, successCount, failedCount) ==
    [total |-> Len(run.validRows), processed |-> BatchStart(i) + BATCH_SIZE,
     success |-> successCount, failed |-> failedCount,
     currentBatch |-> i + 1, totalBatches |-> run.totalBatches]

\* the progress published after batch i
BatchProgress(run, i, successCount, failedCount) ==
    [total |-> Len(run.validRows), processed |-> BatchEnd(run, i),
     success |-> successCount, failed |-> failedCount,
     currentBatch |-> i + 1, totalBatches |-> run.totalBatches]

\* the body of the final PATCH /api/imports/[id]
PatchRequest(run, successCount, failedCount) ==
    [status |-> IF run.isCancelled THEN "FAILED" ELSE "COMPLETED",
     successCount |-> successCount, failureCount |-> failedCount]

\* the head of the for loop with loop variable i: either the next batch
\* request is issued or the loop is left and the final PATCH is issued
LoopHead(run, i, successCount, failedCount) ==
    IF i < run.totalBatches /\ ~run.isCancelled
    THEN LET body == BatchRequest(run, i)
         IN  [run EXCEPT !.pc = "batch_req", !.i = i,
                         !.successCount = successCount, !.failedCount = failedCount,
                         !.casesCreated = 0,
                         !.sent = Append(@, [importId |-> body.importId,
                                             caseIds |-> [k \in 1..Len(body.cases) |->
                                                             body.cases[k].caseId]])]
    ELSE [run EXCEPT !.pc = "patch_req", !.i = i,
                     !.successCount = successCount, !.failedCount = failedCount,
                     !.patch = PatchRequest(run, successCount, failedCount).status,
                     !.patchCancelled = run.cancelRequested]

\* the body of POST /api/imports
ImportRequest(run) == [filename |-> run.filename, totalRows |-> Len(run.validRows)]

\* ------------------------------------------------------------ API routes
\* POST /api/imports: prisma.import.create with the column defaults
NewImport(body, userId) ==
    [filename |-> body.filename, totalRows |-> body.totalRows,
     successCount |-> 0, failureCount |-> 0, status |-> "PROCESSING",
     userId |-> userId]

\* BatchCaseSchema.safeParse(body).success
BatchCaseSchemaOk(body) ==
    /\ Len(body.cases) >= 1
    /\ Len(body.cases) <= 100
    /\ \A k \in 1..Len(body.cases) : CaseSchemaIssues(body.cases[k]) = <<>>

\* result.data.cases[k], the output of the schema: the phone is transformed
\* to E.164 or null, a missing priority takes the default
ParsedCase(c) ==
    [c EXCEPT !.phone = IF c.phone \in {NULL, <<>>} THEN NULL ELSE normalizePhone(c.phone),
              !.priority = IF c.priority = NULL THEN LOW ELSE c.priority]

\* caseResult.error.issues.map((e) => e.message).join(", ")
RECURSIVE JoinMessages(_)
JoinMessages(issues) ==
    IF issues = <<>> THEN ""
    ELSE IF Len(issues) = 1 THEN issues[1][2]
    ELSE issues[1][2] \o ", " \o JoinMessages(Tail(issues))

\* the value of a computation made once: Awaited({F(x) : x \in {e}}) is F(e)
\* with e computed before F, as the handler keeps an awaited value in a const
Awaited(values) == CHOOSE v \in values : TRUE

\* POST /api/cases/batch, the loop over the cases.  A case that fails
\* CaseSchema gets a failed result; otherwise case k is created iff
\* findUnique finds no case with its caseId, that is iff the id was not in
\* the table before the request and no earlier case of the request created it
Created(body, table) ==
    Awaited({
        {k \in valid :
            /\ body.cases[k].caseId \notin table
            /\ \A j \in valid : j < k => body.cases[j].caseId # body.cases[k].caseId}
        : valid \in {{k \in 1..Len(body.cases) :
                        \E c \in {ParsedCase(body.cases[k])} :
                            CaseSchemaIssues(c) = <<>>}}})

\* a loop that pushes a result for the created cases only
ProcessCasesCreatedOnly(body, table) ==
    LET created == Created(body, table)
        kept == SelectSeq([k \in 1..Len(body.cases) |-> k], LAMBDA k : k \in created)
    IN  [table |-> table \cup {body.cases[k].caseId : k \in created},
         results |-> [i \in 1..Len(kept) |->
             [success |-> TRUE, caseId |-> body.cases[kept[i]].caseId, error |-> "",
              id |-> Cardinality(table) + i]]]

ProcessCases(body, table) ==
    Awaited({
        [table |-> table \cup {body.cases[k].caseId : k \in created},
         results |-> [k \in 1..Len(body.cases) |->
             IF k \in created
             THEN [success |-> TRUE, caseId |-> body.cases[k].caseId, error |-> "",
                   id |-> Cardinality(table) + Cardinality({j \in created : j <= k})]
             ELSE IF CaseSchemaIssues(ParsedCase(body.cases[k])) # <<>>
             THEN [success |-> FALSE, caseId |-> body.cases[k].caseId,
                   error |-> JoinMessages(CaseSchemaIssues(ParsedCase(body.cases[k]))),
                   id |-> 0]
             ELSE [success |-> FALSE, caseId |-> body.cases[k].caseId,
                   error |-> "Case with ID already exists", id |-> 0]]]
        : created \in {Created(body, table)}})

\* POST /api/cases/batch as a whole: the response, the tables it leaves and
\* the number of CaseHistory and AuditLog rows it creates.
\* importId 0 stands for a body without importId; an importId that names no
\* import record makes prisma.import.update throw after the cases were
\* created, which the outer catch answers with 500
BatchRoute(body, table, imps) ==
    IF ~BatchCaseSchemaOk(body)
    THEN [status |-> 400, results |-> <<>>, table |-> table, imports |-> imps,
          history |-> 0, audit |-> 0]
    ELSE Awaited({
             IF body.importId = 0
             THEN [status |-> 200, results |-> out.results, table |-> out.table,
                   imports |-> imps,
                   history |-> CountSuccess(out.results), audit |-> 1]
             ELSE IF body.importId \in 1..Len(imps)
             THEN [status |-> 200, results |-> out.results, table |-> out.table,
                   imports |-> [imps EXCEPT
                       ![body.importId].successCount = @ + CountSuccess(out.results),
                       ![body.importId].failureCount = @ + CountFailed(out.results)],
                   history |-> CountSuccess(out.results), audit |-> 1]
             ELSE [status |-> 500, results |-> <<>>, table |-> out.table,
                   imports |-> imps,
                   history |-> CountSuccess(out.results), audit |-> 0]
             : out \in {ProcessCases(body, table)}})

\* PATCH /api/imports/[id]: prisma.import.update
PatchedImport(rec, body) ==
    [rec EXCEPT !.status = body.status,
                !.successCount = body.successCount,
                !.failureCount = body.failureCount]

\* ------------------------------------------------------------- sessions
\* auth() of a request that carries no session
NoSession == [id |-> "", role |-> ""]

\* the signed-in user of the import page
OperatorSession == [id |-> "operator", role |-> "OPERATOR"]

AdminSession == [id |-> "admin", role |-> "ADMIN"]

Sessions == {NoSession, OperatorSession, AdminSession}

\* a session check that lets every request pass
AuthenticatedAlways(session) == TRUE

\* the check every handler starts with: session?.user is set
Authenticated(session) == session # NoSession

\* the database a handler works on
Db == [cases |-> cases, imports |-> imports, journal |-> journal]

\* NextResponse.json(..., { status }) and the database the handler leaves
Answer(status, db) == [status |-> status, results |-> <<>>, db |-> db]

\* GET /api/cases, without query parameters
RouteCasesGET(session, db) ==
    IF ~Authenticated(session) THEN Answer(401, db) ELSE Answer(200, db)

\* POST /api/cases; results carries the case of the 201 response
RouteCasesPOST(session, body, db) ==
    IF ~Authenticated(session) THEN Answer(401, db)
    ELSE IF CaseSchemaIssues(body) # <<>> THEN Answer(400, db)
    ELSE IF body.caseId \in db.cases THEN Answer(409, db)
    ELSE [Answer(201, [db EXCEPT !.cases = @ \cup {body.caseId},
                                 !.journal.history = @ + 1,
                                 !.journal.audit = @ + 1])
             EXCEPT !.results = <<ParsedCase(body)>>]

\* POST /api/cases/batch
RouteBatchPOST(session, body, db) ==
    IF ~Authenticated(session) THEN Answer(401, db)
    ELSE Awaited({
             [status |-> out.status, results |-> out.results,
              db |-> [cases |-> out.table, imports |-> out.imports,
                      journal |-> [db.journal EXCEPT !.history = @ + out.history,
                                                     !.audit = @ + out.audit]]]
             : out \in {BatchRoute(body, db.cases, db.imports)}})

\* GET /api/cases/[id]; a case is addressed by its caseId
RouteCaseGET(session, id, db) ==
    IF ~Authenticated(session) THEN Answer(401, db)
    ELSE IF id \notin db.cases THEN Answer(404, db)
    ELSE Answer(200, db)

\* the applicantName the PATCH bodies of the API clients carry
NewName == <<"Z", "e", "d">>

\* CaseUpdateSchema.safeParse(body).success, for a body that has at most
\* the key applicantName (NULL: the key is absent)
CaseUpdateSchemaOk(body) ==
    body.applicantName = NULL \/ Len(body.applicantName) \in 1..MaxNameLen

\* PATCH /api/cases/[id]: the stored applicantName equals NewName iff an
\* earlier PATCH has set it
RouteCasePATCH(session, id, body, db) ==
    IF ~Authenticated(session) THEN Answer(401, db)
    ELSE IF ~CaseUpdateSchemaOk(body) THEN Answer(400, db)
    ELSE IF id \notin db.cases THEN Answer(404, db)
    ELSE IF body.applicantName = NULL \/ id \in db.journal.renamed
    THEN Answer(200, db)
    ELSE Answer(200, [db EXCEPT !.journal.renamed = @ \cup {id},
                                !.journal.history = @ + 1,
                                !.journal.audit = @ + 1])

\* DELETE /api/cases/[id]
RouteCaseDELETE(session, id, db) ==
    IF ~Authenticated(session) THEN Answer(401, db)
    ELSE IF session.role # "ADMIN" THEN Answer(403, db)
    ELSE IF id \notin db.cases THEN Answer(404, db)
    ELSE Answer(200, [db EXCEPT !.cases = @ \ {id},
                                !.journal.renamed = @ \ {id},
                                !.journal.audit = @ + 1])

\* POST /api/cases/[id]/notes; CaseNoteSchema: content of 1 to 5000 characters
RouteNotesPOST(session, id, body, db) ==
    IF ~Authenticated(session) THEN Answer(401, db)
    ELSE IF Len(body.content) \notin 1..5000 THEN Answer(400, db)
    ELSE IF id \notin db.cases THEN Answer(404, db)
    ELSE Answer(201, [db EXCEPT !.journal.notes = @ + 1,
                                !.journal.history = @ + 1])

\* GET /api/imports
RouteImportsGET(session, db) ==
    IF ~Authenticated(session) THEN Answer(401, db) ELSE Answer(200, db)

\* POST /api/imports; ImportCreateSchema: a filename, a positive totalRows
RouteImportsPOST(session, body, db) ==
    IF ~Authenticated(session) THEN Answer(401, db)
    ELSE IF Len(body.filename) = 0 \/ body.totalRows <= 0 THEN Answer(400, db)
    ELSE Answer(201, [db EXCEPT !.imports = Append(@, NewImport(body, session.id)),
                                !.journal.audit = @ + 1])

\* GET /api/imports/[id]
RouteImportGET(session, id, db) ==
    IF ~Authenticated(session) THEN Answer(401, db)
    ELSE IF id \notin 1..Len(db.imports) THEN Answer(404, db)
    ELSE IF db.imports[id].userId # session.id /\ session.role # "ADMIN"
    THEN Answer(403, db)
    ELSE Answer(200, db)

\* PATCH /api/imports/[id]
RouteImportPATCH(session, id, body, db) ==
    IF ~Authenticated(session) THEN Answer(401, db)
    ELSE IF id \notin 1..Len(db.imports) THEN Answer(404, db)
    ELSE IF db.imports[id].userId # session.id THEN Answer(403, db)
    ELSE Answer(200, [db EXCEPT !.imports[id] = PatchedImport(@, body),
                                !.journal.audit = @ + 1])

\* the handler's writes reach the tables
Commit(db) ==
    /\ cases' = db.cases
    /\ imports' = db.imports
    /\ journal' = db.journal

\* ------------------------------------------------------------------- state
NoReq == [none |-> TRUE]

\* no toolbar operation yet
NoFix == [op |-> "none", count |-> 0]

\* CSVDropzone as mounted: error === null, no file given yet
NoFile == [error |-> "", name |-> <<>>, size |-> 0]

\* CaseHistory, CaseNote and AuditLog are empty, no case was renamed
NoJournal == [history |-> 0, notes |-> 0, audit |-> 0, renamed |-> {}]

\* no request of an API client yet
NoResponse ==
    [route |-> "none", session |-> NoSession, status |-> 0,
     request |-> [cases |-> <<>>, importId |-> 0], results |-> <<>>]

Running(run) == run.pc # "done"

Init ==
    /\ rawData = <<>>
    /\ filename = NULL
    /\ validationErrors = <<>>
    /\ importId = 0
    /\ progress = NoProgress
    /\ batchResults = <<>>
    /\ isSubmitting = FALSE
    /\ step = "upload"
    /\ isCancelled = FALSE
    /\ runs = <<>>
    /\ imports = <<>>
    /\ cases \in ServerSeeds
    /\ fixed = NoFix
    /\ dropzone = NoFile
    /\ exported = <<>>
    /\ apiResponse = NoResponse
    /\ journal = NoJournal
    /\ inflight = [inserted |-> <<>>, handlers |-> <<>>]
    /\ budget \in Scenarios

\* file.name.endsWith(".csv")
EndsWithCsv(name) ==
    Len(name) >= 4 /\ SubSeq(name, Len(name) - 3, Len(name)) = <<".", "c", "s", "v">>

\* the size check of parseFile that accepts sizes below the limit only
FileSizeOkExclusive(size) == size < MAX_FILE_SIZE

\* the size check of parseFile: file.size > 50 * 1024 * 1024 is rejected
FileSizeOk(size) == ~(size > MAX_FILE_SIZE)

\* CSVDropzone.parseFile, a file that passes the checks: setError(null),
\* Papa.parse (complete) -> setRawData, the validation effect of ImportPage,
\* handleUploadComplete.  dropzone keeps the name and the size of the file
\* as history
setRawData ==
    /\ step = "upload"
    /\ \E data \in Files(budget.kind), meta \in FileMetas(budget.kind) :
         /\ EndsWithCsv(meta.name)
         /\ FileSizeOk(meta.size)
         /\ dropzone' = [error |-> "", name |-> meta.name, size |-> meta.size]
         /\ LET s == StoreSetRawData(data, meta.name)
            IN  /\ rawData' = s.rawData
                /\ filename' = s.filename
                /\ validationErrors' = ValidationEffect(s.rawData, s.validationErrors)
                /\ batchResults' = s.batchResults
                /\ progress' = s.progress
    /\ step' = "review"
    /\ UNCHANGED <<importId, isSubmitting, isCancelled, runs, imports, cases, budget,
                   fixed, exported, apiResponse, serverVars>>

\* CSVDropzone.parseFile, a file that fails the type or the size check:
\* setError and return before Papa.parse
parseFileRejected ==
    /\ step = "upload"
    /\ \E data \in Files(budget.kind), meta \in FileMetas(budget.kind) :
         /\ ~(EndsWithCsv(meta.name) /\ FileSizeOk(meta.size))
         /\ dropzone' = [error |-> IF ~EndsWithCsv(meta.name)
                                   THEN "Please upload a CSV file"
                                   ELSE "File size must be less than 50MB",
                         name |-> meta.name, size |-> meta.size]
    /\ UNCHANGED <<storeVars, step, isCancelled, runs, imports, cases, budget,
                   fixed, exported, apiResponse, serverVars>>

\* DataGrid cell edit -> updateRow, then the validation effect
updateRow ==
    /\ step = "review"
    /\ Len(rawData) > 0
    /\ budget.edits > 0
    /\ \E rowIndex \in {0, 1}, value \in {TAX, FOO} :
         /\ rawData' = StoreUpdateRow(rawData, rowIndex, "category", value)
         /\ rawData' # rawData
         /\ validationErrors' = ValidationEffect(rawData', validationErrors)
    /\ budget' = [budget EXCEPT !.edits = @ - 1]
    /\ UNCHANGED <<filename, importId, progress, batchResults, isSubmitting,
                   step, isCancelled, runs, imports, cases>>
    /\ UNCHANGED viewVars
    /\ UNCHANGED serverVars

\* the editable fields and the values the callers of the store write
StoreWrites ==
    {[field |-> "case_id", value |-> CaseIdOf(0)], [field |-> "priority", value |-> HIGH]}

\* a component calls useImportStore.updateRow with an index that exists or
\* not (Len(rawData) names no row); the validation effect follows, as the
\* call always stores a new array
callUpdateRow(rowIndex, field, value) ==
    /\ budget.kind = "store"
    /\ step = "review"
    /\ budget.edits > 0
    /\ rawData' = StoreUpdateRow(rawData, rowIndex, field, value)
    /\ validationErrors' = ValidationEffect(rawData', validationErrors)
    /\ budget' = [budget EXCEPT !.edits = @ - 1]
    /\ UNCHANGED <<filename, importId, progress, batchResults, isSubmitting,
                   step, isCancelled, runs, imports, cases>>
    /\ UNCHANGED viewVars
    /\ UNCHANGED serverVars

storeUpdateRow ==
    \E rowIndex \in 0..Len(rawData), w \in StoreWrites :
        callUpdateRow(rowIndex, w.field, w.value)

\* a component calls useImportStore.updateMultipleRows with two updates
storeUpdateMultipleRows ==
    /\ budget.kind = "store"
    /\ step = "review"
    /\ budget.edits > 0
    /\ \E i, j \in {0, Len(rawData) - 1, Len(rawData)}, w, v \in StoreWrites :
         rawData' = StoreUpdateMultipleRows(rawData,
                        <<Update(i, w.field, w.value), Update(j, v.field, v.value)>>)
    /\ validationErrors' = ValidationEffect(rawData', validationErrors)
    /\ budget' = [budget EXCEPT !.edits = @ - 1]
    /\ UNCHANGED <<filename, importId, progress, batchResults, isSubmitting,
                   step, isCancelled, runs, imports, cases>>
    /\ UNCHANGED viewVars
    /\ UNCHANGED serverVars

\* a toolbar button: the updates go to updateMultipleRows (not called when
\* there is none), then the validation effect; count is the returned number
ToolbarFix(op, result) ==
    /\ budget.kind = "review"
    /\ step = "review"
    /\ Len(rawData) > 0
    /\ budget.edits > 0
    /\ rawData' = result.rows
    /\ validationErrors' = ValidationEffect(result.rows, validationErrors)
    /\ fixed' = [op |-> op, count |-> result.count]
    /\ budget' = [budget EXCEPT !.edits = @ - 1]
    /\ UNCHANGED <<filename, importId, progress, batchResults, isSubmitting,
                   step, isCancelled, runs, imports, cases,
                   dropzone, exported, apiResponse, serverVars>>

\* FixAllToolbar.trimWhitespace
trimWhitespace == ToolbarFix("trimWhitespace", FixResult(rawData, trimUpdates(rawData)))

\* FixAllToolbar.titleCaseNames
titleCaseNames == ToolbarFix("titleCaseNames", FixResult(rawData, titleCaseUpdates(rawData)))

\* FixAllToolbar.normalizePhones
normalizePhones ==
    ToolbarFix("normalizePhones", FixResult(rawData, normalizePhonesUpdates(rawData)))

\* FixAllToolbar.setDefaultPriority
setDefaultPriority ==
    ToolbarFix("setDefaultPriority", FixResult(rawData, defaultPriorityUpdates(rawData)))

\* FixAllToolbar.fixAll
fixAll == ToolbarFix("fixAll", fixAllResult(rawData))

\* "Continue to Submit": BatchSubmit is mounted with fresh component state
continueToSubmit ==
    /\ step = "review"
    /\ Len(rawData) > 0
    /\ step' = "submit"
    /\ isCancelled' = FALSE
    /\ UNCHANGED <<storeVars, runs, imports, cases, budget>>
    /\ UNCHANGED viewVars
    /\ UNCHANGED serverVars

\* "Back to Review": BatchSubmit is unmounted
backToReview ==
    /\ budget.kind \in {"long", "retry", "sessions"}
    /\ step = "submit"
    /\ step' = "review"
    /\ isCancelled' = FALSE
    /\ UNCHANGED <<storeVars, runs, imports, cases, budget>>
    /\ UNCHANGED viewVars
    /\ UNCHANGED serverVars

\* ImportPage.handleStartNewImport: clearImport(); setStep("upload")
handleStartNewImport ==
    /\ budget.kind \in {"sessions", "store"}
    /\ step \notin {"upload", "away"}
    /\ rawData' = <<>>
    /\ filename' = NULL
    /\ validationErrors' = <<>>
    /\ importId' = 0
    /\ progress' = NoProgress
    /\ batchResults' = <<>>
    /\ isSubmitting' = FALSE
    /\ step' = "upload"
    /\ isCancelled' = FALSE
    /\ UNCHANGED <<runs, imports, cases, budget>>
    /\ UNCHANGED viewVars
    /\ UNCHANGED serverVars

\* the user follows a link to another page of the dashboard: ImportPage and
\* its children unmount, without an effect cleanup; the store is a module
\* level object and is left as it is
navigateAway ==
    /\ budget.kind = "store"
    /\ step # "away"
    /\ step' = "away"
    /\ UNCHANGED <<storeVars, isCancelled, runs, imports, cases, budget>>
    /\ UNCHANGED viewVars
    /\ UNCHANGED serverVars

\* the user comes back: ImportPage mounts with step "upload" and fresh
\* component state, reads the store, and its effect validates the rows the
\* store holds
openImportPage ==
    /\ step = "away"
    /\ step' = "upload"
    /\ isCancelled' = FALSE
    /\ fixed' = NoFix
    /\ dropzone' = NoFile
    /\ validationErrors' = ValidationEffect(rawData, validationErrors)
    /\ UNCHANGED <<rawData, filename, importId, progress, batchResults, isSubmitting,
                   runs, imports, cases, budget, exported, apiResponse>>
    /\ UNCHANGED serverVars

\* ------------------------------------------------------------ submission
\* batchResults.filter((r) => !r.success).map((r) => r.caseId)
failedCaseIds(results) ==
    {results[k].caseId : k \in {j \in 1..Len(results) : ~results[j].success}}

\* for each case id in results[lo..hi], the success flag of its latest entry
\* (split in halves; the later half wins)
RECURSIVE LatestOutcome(_, _, _)
LatestOutcome(results, lo, hi) ==
    IF lo > hi THEN <<>>
    ELSE IF lo = hi THEN (results[lo].caseId :> results[lo].success)
    ELSE LET mid == (lo + hi) \div 2
         IN  LatestOutcome(results, mid + 1, hi) @@ LatestOutcome(results, lo, mid)

\* the case ids whose latest entry in the Batch Results is a failure
LatestFailed(results) ==
    LET latest == LatestOutcome(results, 1, Len(results))
    IN  {id \in DOMAIN latest : ~latest[id]}

\* the number of rows no validation error refers to
ErrorFreeCount(rows, errors) ==
    LET flagged == {errors[e].row : e \in 1..Len(errors)}
    IN  Cardinality({k \in 1..Len(rows) : rows[k]._rowIndex \notin flagged})

\* the synchronous head of startSubmission, up to the first await: the frame
\* captures validRows, filename and isCancelled of the render it was created in
StartRun(retry) ==
    LET rows == validRows(rawData, validationErrors)
    IN  /\ budget.runs > 0
        /\ Len(rows) > 0
        /\ isSubmitting' = TRUE
        /\ isCancelled' = FALSE
        /\ runs' = Append(runs,
             [pc |-> "import_req",
              validRows |-> rows,
              isCancelled |-> isCancelled,
              filename |-> IF filename = NULL THEN <<"i">> ELSE filename,
              importRecord |-> 0,
              totalBatches |-> 0,
              i |-> 0,
              successCount |-> 0,
              failedCount |-> 0,
              resp |-> NoReq,
              \* history, not read by the program
              retry |-> retry,
              failedBefore |-> LatestFailed(batchResults),
              errorFree |-> ErrorFreeCount(rawData, validationErrors),
              created |-> 0,
              casesCreated |-> 0,
              sent |-> <<>>,
              cancelRequested |-> FALSE,
              sentAtCancel |-> 0,
              patch |-> "none",
              patchCancelled |-> FALSE])
        /\ budget' = [budget EXCEPT !.runs = @ - 1]
        /\ UNCHANGED <<rawData, filename, validationErrors, importId, progress,
                       batchResults, step, imports, cases>>
        /\ UNCHANGED viewVars
        /\ UNCHANGED serverVars

\* the "Submit N Cases" button of the pre-submission view
startSubmission ==
    /\ step = "submit"
    /\ ~isSubmitting
    /\ progress = NoProgress
    /\ StartRun(FALSE)

\* the "Retry Failed" button of the completed view -> retryFailed
retryFailed ==
    /\ budget.kind \in {"retry", "export"}
    /\ step = "submit"
    /\ ~isSubmitting
    /\ progress # NoProgress
    /\ budget.runs > 0
    /\ LET ids == failedCaseIds(batchResults)
           rowsToRetry == SelectSeq(rawData, LAMBDA row : row.case_id \in ids)
       IN  /\ ids # {}
           /\ Len(rowsToRetry) > 0
    /\ StartRun(TRUE)

\* the first entry of results for the case id (Array.prototype.find), its
\* position or 0
FindResult(results, caseId) ==
    IF \E k \in 1..Len(results) : results[k].caseId = caseId
    THEN CHOOSE k \in 1..Len(results) :
            /\ results[k].caseId = caseId
            /\ \A j \in 1..(k - 1) : results[j].caseId # caseId
    ELSE 0

\* downloadErrorsCSV: the data lines of the file, one per failedRows entry,
\* as the row and the content of its error column
ErrorsCSV(rows, results) ==
    LET ids == failedCaseIds(results)
        failedRows == SelectSeq(rows, LAMBDA row : row.case_id \in ids)
    IN  [k \in 1..Len(failedRows) |->
            LET at == FindResult(results, failedRows[k].case_id)
            IN  [row |-> failedRows[k],
                 error |-> IF at = 0 \/ results[at].error = ""
                           THEN "Unknown error" ELSE results[at].error]]

\* the "Download Failed Rows" button of the completed view -> downloadErrorsCSV
downloadErrorsCSV ==
    /\ budget.kind = "export"
    /\ step = "submit"
    /\ ~isSubmitting
    /\ progress # NoProgress
    /\ failedCaseIds(batchResults) # {}
    /\ ErrorsCSV(rawData, batchResults) # <<>>
    /\ exported' = ErrorsCSV(rawData, batchResults)
    /\ UNCHANGED <<storeVars, step, isCancelled, runs, imports, cases, budget,
                   fixed, dropzone, apiResponse, serverVars>>

\* the "Cancel" button of the submitting view -> cancelSubmission
cancelSubmission ==
    /\ budget.kind \in {"long", "unreliable", "retry"}
    /\ step = "submit"
    /\ isSubmitting
    /\ progress # NoProgress
    /\ ~isCancelled
    /\ isCancelled' = TRUE
    /\ runs' = [r \in 1..Len(runs) |->
                  IF Running(runs[r]) /\ ~runs[r].cancelRequested
                  THEN [runs[r] EXCEPT !.cancelRequested = TRUE,
                                       !.sentAtCancel = Len(runs[r].sent)]
                  ELSE runs[r]]
    /\ UNCHANGED <<storeVars, step, imports, cases, budget>>
    /\ UNCHANGED viewVars
    /\ UNCHANGED serverVars

\* server: POST /api/imports
ImportsPOST(r) ==
    /\ runs[r].pc = "import_req"
    /\ LET out == RouteImportsPOST(OperatorSession, ImportRequest(runs[r]), Db)
       IN  /\ Commit(out.db)
           /\ runs' = [runs EXCEPT
                  ![r].pc = "import_resp",
                  ![r].resp = IF out.status = 201
                              THEN [ok |-> TRUE, id |-> Len(out.db.imports)]
                              ELSE [ok |-> FALSE],
                  ![r].created = IF out.status = 201 THEN Len(out.db.imports) ELSE @]
    /\ UNCHANGED <<storeVars, step, isCancelled, budget, inflight>>
    /\ UNCHANGED viewVars

\* server: POST /api/cases/batch, called by startSubmission (body and out
\* are bound as values, so that the request is built and handled once)
BatchPOST(r) ==
    /\ runs[r].pc = "batch_req"
    /\ \E body \in {BatchRequest(runs[r], runs[r].i)} :
       \E out \in {RouteBatchPOST(OperatorSession, body, Db)} :
           /\ Commit(out.db)
           /\ runs' = [runs EXCEPT
                  ![r].pc = "batch_resp",
                  ![r].resp = IF out.status = 200
                              THEN [ok |-> TRUE, results |-> out.results]
                              ELSE [ok |-> FALSE],
                  \* history: the number of cases this request created
                  ![r].casesCreated = Cardinality(out.db.cases) - Cardinality(cases)]
    /\ UNCHANGED <<storeVars, step, isCancelled, budget, inflight>>
    /\ UNCHANGED viewVars

\* the cases an API client puts into its requests
ApiCase(i, category) == CasePayload(CsvRow(i, CaseIdOf(i), category))

ApiBodies ==
    LET pool == {ApiCase(0, TAX), ApiCase(1, TAX), ApiCase(2, FOO)}
    IN  {[cases |-> cs, importId |-> id] :
            cs \in {<<>>} \cup {<<c>> : c \in pool} \cup (pool \X pool), id \in {0, 1}}
        \cup {[cases |-> [k \in 1..(BATCH_SIZE + 1) |-> ApiCase(k, TAX)], importId |-> 0]}

\* ------------------------------------------------- concurrent handlers
\* the case-creation requests that run concurrently: valid cases, new to
\* the server or not
ConcurrentRequests ==
    {[route |-> "POST /api/cases/batch",
      body |-> [cases |-> cs, importId |-> 0]] :
         cs \in {<<ApiCase(1, TAX)>>, <<ApiCase(0, TAX), ApiCase(1, TAX)>>}}
    \cup {[route |-> "POST /api/cases",
           body |-> [cases |-> <<ApiCase(1, TAX)>>, importId |-> 0]]}

\* a Case table without the unique index on caseId
UniqueViolationNever(caseId, table) == FALSE

\* CREATE UNIQUE INDEX "Case_caseId_key": prisma.case.create throws when a
\* row with the caseId exists at the time of the insert
UniqueViolation(caseId, table) == caseId \in table

\* the handler h with the result for its current case pushed: the loop moves
\* to the next case, or leaves for the import update and the audit log
Pushed(h, result) ==
    [h EXCEPT !.results = Append(@, result),
              !.k = @ + 1,
              !.pc = IF h.k < Len(h.caseIds) THEN "findUnique" ELSE "audit"]

\* a request arrives: session check and schema validation, up to the first
\* await on the Case table
handlerStart ==
    /\ budget.kind = "concurrent"
    /\ budget.runs > 0
    /\ \E req \in ConcurrentRequests :
         LET valid == \A k \in 1..Len(req.body.cases) :
                          CaseSchemaIssues(req.body.cases[k]) = <<>>
             h == [route |-> req.route,
                   caseIds |-> [k \in 1..Len(req.body.cases) |-> req.body.cases[k].caseId],
                   k |-> 1, results |-> <<>>,
                   pc |-> IF valid THEN "findUnique" ELSE "done",
                   status |-> IF valid THEN 0 ELSE 400]
         IN  inflight' = [inflight EXCEPT !.handlers = Append(@, h)]
    /\ budget' = [budget EXCEPT !.runs = @ - 1]
    /\ UNCHANGED <<storeVars, step, isCancelled, runs, imports, cases, journal>>
    /\ UNCHANGED viewVars

\* await prisma.case.findUnique({ where: { caseId } }) and the test of its
\* result
findUnique(n) ==
    /\ inflight.handlers[n].pc = "findUnique"
    /\ LET h == inflight.handlers[n]
           caseId == h.caseIds[h.k]
       IN  inflight' = [inflight EXCEPT !.handlers[n] =
               IF caseId \notin cases THEN [h EXCEPT !.pc = "create"]
               ELSE IF h.route = "POST /api/cases"
               THEN [h EXCEPT !.pc = "done", !.status = 409]
               ELSE Pushed(h, [success |-> FALSE, caseId |-> caseId,
                               error |-> "Case with ID already exists"])]
    /\ UNCHANGED <<storeVars, step, isCancelled, runs, imports, cases, journal,
                   budget>>
    /\ UNCHANGED viewVars

\* await prisma.case.create and what follows it without touching Case: the
\* history entry and the result (batch), the history entry, the audit log and
\* the response (single).  The insert throws on the unique index: the batch
\* loop catches per case, the single route answers 500 from its outer catch
create(n) ==
    /\ inflight.handlers[n].pc = "create"
    /\ LET h == inflight.handlers[n]
           caseId == h.caseIds[h.k]
       IN  IF UniqueViolation(caseId, cases)
           THEN /\ inflight' = [inflight EXCEPT !.handlers[n] =
                       IF h.route = "POST /api/cases"
                       THEN [h EXCEPT !.pc = "done", !.status = 500]
                       ELSE Pushed(h, [success |-> FALSE, caseId |-> caseId,
                                       error |-> "Unique constraint failed"])]
                /\ UNCHANGED <<cases, journal>>
           ELSE /\ cases' = cases \cup {caseId}
                /\ inflight' = [inflight EXCEPT
                       !.inserted = Append(@, caseId),
                       !.handlers[n] =
                          IF h.route = "POST /api/cases"
                          THEN [h EXCEPT !.pc = "done", !.status = 201]
                          ELSE Pushed(h, [success |-> TRUE, caseId |-> caseId,
                                          error |-> ""])]
                /\ journal' = [journal EXCEPT
                       !.history = @ + 1,
                       !.audit = IF h.route = "POST /api/cases" THEN @ + 1 ELSE @]
    /\ UNCHANGED <<storeVars, step, isCancelled, runs, imports, budget>>
    /\ UNCHANGED viewVars

\* the batch route after its loop: no importId, the audit log, the response
audit(n) ==
    /\ inflight.handlers[n].pc = "audit"
    /\ inflight' = [inflight EXCEPT !.handlers[n].pc = "done",
                                    !.handlers[n].status = 200]
    /\ journal' = [journal EXCEPT !.audit = @ + 1]
    /\ UNCHANGED <<storeVars, step, isCancelled, runs, imports, cases, budget>>
    /\ UNCHANGED viewVars

\* dates of birth around the two ends of the accepted range, and a text
\* that is no date
DobSamples ==
    {<<"1", "8", "9", "9", "-", "1", "2", "-", "3", "1">>,
     <<"1", "9", "0", "0", "-", "0", "1", "-", "0", "1">>,
     <<"2", "0", "2", "6", "-", "1", "1", "-", "0", "2">>,
     <<"2", "0", "2", "6", "-", "1", "1", "-", "0", "3">>,
     <<"2", "0", "5", "0", "-", "0", "1", "-", "0", "1">>,
     <<"n", "/", "a">>}

\* cases an API client creates without the key priority
DatedCases == {[ApiCase(1, TAX) EXCEPT !.dob = d, !.priority = NULL] : d \in DobSamples}

\* an API client sends a request with or without a session; the handler
\* runs as a whole and the client receives its response
ApiCall(route, session, request, out) ==
    /\ budget.kind = "api"
    /\ budget.runs > 0
    /\ Commit(out.db)
    /\ apiResponse' = [route |-> route, session |-> session, status |-> out.status,
                       request |-> request, results |-> out.results]
    /\ budget' = [budget EXCEPT !.runs = @ - 1]
    /\ UNCHANGED <<storeVars, step, isCancelled, runs, fixed, dropzone, exported,
                   inflight>>

\* the cases and import records the API clients name in their requests
ApiCaseIds == {CaseIdOf(0), CaseIdOf(1)}

ApiImportIds == {1, 2}

\* server: POST /api/cases/batch, called by an API client
apiBatchPOST ==
    \E session \in Sessions, body \in ApiBodies :
        ApiCall("POST /api/cases/batch", session, body,
                RouteBatchPOST(session, body, Db))

\* server: GET /api/cases
apiCasesGET ==
    \E session \in Sessions :
        ApiCall("GET /api/cases", session, NoReq, RouteCasesGET(session, Db))

\* server: POST /api/cases
apiCasesPOST ==
    \E session \in Sessions,
       body \in {ApiCase(0, TAX), ApiCase(1, TAX), ApiCase(2, FOO)} \cup DatedCases :
        ApiCall("POST /api/cases", session, body, RouteCasesPOST(session, body, Db))

\* server: GET /api/cases/[id]
apiCaseGET ==
    \E session \in Sessions, id \in ApiCaseIds :
        ApiCall("GET /api/cases/[id]", session, [id |-> id],
                RouteCaseGET(session, id, Db))

\* server: PATCH /api/cases/[id]
apiCasePATCH ==
    \E session \in Sessions, id \in ApiCaseIds,
       body \in {[applicantName |-> n] : n \in {NULL, <<>>, NewName}} :
        ApiCall("PATCH /api/cases/[id]", session, [id |-> id, body |-> body],
                RouteCasePATCH(session, id, body, Db))

\* server: DELETE /api/cases/[id]
apiCaseDELETE ==
    \E session \in Sessions, id \in ApiCaseIds :
        ApiCall("DELETE /api/cases/[id]", session, [id |-> id],
                RouteCaseDELETE(session, id, Db))

\* server: POST /api/cases/[id]/notes
apiNotesPOST ==
    \E session \in Sessions, id \in ApiCaseIds,
       body \in {[content |-> c] : c \in {<<>>, <<"n">>}} :
        ApiCall("POST /api/cases/[id]/notes", session, [id |-> id, body |-> body],
                RouteNotesPOST(session, id, body, Db))

\* server: GET /api/imports
apiImportsGET ==
    \E session \in Sessions :
        ApiCall("GET /api/imports", session, NoReq, RouteImportsGET(session, Db))

\* server: POST /api/imports
apiImportsPOST ==
    \E session \in Sessions,
       body \in {[filename |-> CSV_NAME, totalRows |-> n] : n \in {0, 2}} :
        ApiCall("POST /api/imports", session, body,
                RouteImportsPOST(session, body, Db))

\* server: GET /api/imports/[id]
apiImportGET ==
    \E session \in Sessions, id \in ApiImportIds :
        ApiCall("GET /api/imports/[id]", session, [id |-> id],
                RouteImportGET(session, id, Db))

\* server: PATCH /api/imports/[id]
apiImportPATCH ==
    \E session \in Sessions, id \in ApiImportIds :
        LET body == [status |-> "COMPLETED", successCount |-> 1, failureCount |-> 1]
        IN  ApiCall("PATCH /api/imports/[id]", session, [id |-> id, body |-> body],
                    RouteImportPATCH(session, id, body, Db))

\* server: PATCH /api/imports/[id]
ImportPATCH(r) ==
    /\ runs[r].pc = "patch_req"
    /\ LET out == RouteImportPATCH(OperatorSession, runs[r].importRecord,
                                   PatchRequest(runs[r], runs[r].successCount,
                                                runs[r].failedCount), Db)
       IN  /\ Commit(out.db)
           /\ runs' = [runs EXCEPT ![r].pc = "patch_resp",
                                   ![r].resp = [ok |-> out.status = 200]]
    /\ UNCHANGED <<storeVars, step, isCancelled, budget, inflight>>
    /\ UNCHANGED viewVars

\* the network or the server fails a request as a whole: it is lost before
\* the handler runs, or its response is lost or is not OK
TransportFailure(r) ==
    /\ budget.netFailures > 0
    /\ \/ /\ runs[r].pc \in {"import_req", "batch_req", "patch_req"}
          /\ runs' = [runs EXCEPT
                 ![r].pc = IF runs[r].pc = "import_req" THEN "import_resp"
                           ELSE IF runs[r].pc = "batch_req" THEN "batch_resp"
                           ELSE "patch_resp",
                 ![r].resp = [ok |-> FALSE]]
       \/ /\ runs[r].pc \in {"import_resp", "batch_resp", "patch_resp"}
          /\ runs[r].resp.ok
          /\ runs' = [runs EXCEPT ![r].resp = [ok |-> FALSE]]
    /\ budget' = [budget EXCEPT !.netFailures = @ - 1]
    /\ UNCHANGED <<storeVars, step, isCancelled, imports, cases>>
    /\ UNCHANGED viewVars
    /\ UNCHANGED serverVars

\* a startSubmission without the finally block on the path of a failed
\* import-record creation
ImportResponseNoFinally(r) ==
    /\ runs[r].pc = "import_resp"
    /\ IF ~runs[r].resp.ok
       THEN /\ runs' = [runs EXCEPT ![r].pc = "done"]
            /\ UNCHANGED <<importId, progress, isSubmitting>>
       ELSE LET run == [runs[r] EXCEPT
                           !.importRecord = runs[r].resp.id,
                           !.totalBatches = TotalBatches(Len(runs[r].validRows))]
            IN  /\ importId' = runs[r].resp.id
                /\ progress' = [total |-> Len(run.validRows), processed |-> 0,
                                success |-> 0, failed |-> 0, currentBatch |-> 0,
                                totalBatches |-> run.totalBatches]
                /\ runs' = [runs EXCEPT ![r] = LoopHead(run, 0, 0, 0)]
                /\ UNCHANGED isSubmitting
    /\ UNCHANGED <<rawData, filename, validationErrors, batchResults, step,
                   isCancelled, imports, cases, budget>>
    /\ UNCHANGED viewVars
    /\ UNCHANGED serverVars

\* startSubmission resumes after the import record request
ImportResponse(r) ==
    /\ runs[r].pc = "import_resp"
    /\ IF ~runs[r].resp.ok
       THEN \* throw -> catch -> finally
            /\ isSubmitting' = FALSE
            /\ runs' = [runs EXCEPT ![r].pc = "done"]
            /\ UNCHANGED <<importId, progress>>
       ELSE LET run == [runs[r] EXCEPT
                           !.importRecord = runs[r].resp.id,
                           !.totalBatches = TotalBatches(Len(runs[r].validRows))]
            IN  /\ importId' = runs[r].resp.id
                /\ progress' = [total |-> Len(run.validRows), processed |-> 0,
                                success |-> 0, failed |-> 0, currentBatch |-> 0,
                                totalBatches |-> run.totalBatches]
                /\ runs' = [runs EXCEPT ![r] = LoopHead(run, 0, 0, 0)]
                /\ UNCHANGED isSubmitting
    /\ UNCHANGED <<rawData, filename, validationErrors, batchResults, step,
                   isCancelled, imports, cases, budget>>
    /\ UNCHANGED viewVars
    /\ UNCHANGED serverVars

\* startSubmission resumes after the request of batch i
BatchResponse(r) ==
    /\ runs[r].pc = "batch_resp"
    /\ LET run == runs[r]
           results == IF run.resp.ok THEN run.resp.results
                      ELSE FailedResults(BatchSlice(run, run.i))
           successCount == IF run.resp.ok
                           THEN run.successCount + CountSuccess(results)
                           ELSE run.successCount
           failedCount == IF run.resp.ok
                          THEN run.failedCount + CountFailed(results)
                          ELSE run.failedCount + Len(BatchSlice(run, run.i))
       IN  /\ batchResults' = batchResults \o results
           /\ progress' = BatchProgress(run, run.i, successCount, failedCount)
           /\ runs' = [runs EXCEPT ![r] = LoopHead(run, run.i + 1, successCount, failedCount)]
    /\ UNCHANGED <<rawData, filename, validationErrors, importId, isSubmitting,
                   step, isCancelled, imports, cases, budget>>
    /\ UNCHANGED viewVars
    /\ UNCHANGED serverVars

\* startSubmission resumes after the final PATCH: finally
PatchResponse(r) ==
    /\ runs[r].pc = "patch_resp"
    /\ isSubmitting' = FALSE
    /\ runs' = [runs EXCEPT ![r].pc = "done"]
    /\ UNCHANGED <<rawData, filename, validationErrors, importId, progress,
                   batchResults, step, isCancelled, imports, cases, budget>>
    /\ UNCHANGED viewVars
    /\ UNCHANGED serverVars

Next ==
    \/ setRawData
    \/ parseFileRejected
    \/ updateRow
    \/ trimWhitespace
    \/ titleCaseNames
    \/ normalizePhones
    \/ setDefaultPriority
    \/ fixAll
    \/ downloadErrorsCSV
    \/ navigateAway
    \/ openImportPage
    \/ storeUpdateRow
    \/ storeUpdateMultipleRows
    \/ handlerStart
    \/ \E n \in 1..Len(inflight.handlers) : findUnique(n)
    \/ \E n \in 1..Len(inflight.handlers) : create(n)
    \/ \E n \in 1..Len(inflight.handlers) : audit(n)
    \/ apiBatchPOST
    \/ apiCasesGET
    \/ apiCasesPOST
    \/ apiCaseGET
    \/ apiCasePATCH
    \/ apiCaseDELETE
    \/ apiNotesPOST
    \/ apiImportsGET
    \/ apiImportsPOST
    \/ apiImportGET
    \/ apiImportPATCH
    \/ continueToSubmit
    \/ backToReview
    \/ handleStartNewImport
    \/ startSubmission
    \/ retryFailed
    \/ cancelSubmission
    \/ \E r \in 1..Len(runs) : ImportsPOST(r)
    \/ \E r \in 1..Len(runs) : BatchPOST(r)
    \/ \E r \in 1..Len(runs) : ImportPATCH(r)
    \/ \E r \in 1..Len(runs) : TransportFailure(r)
    \/ \E r \in 1..Len(runs) : ImportResponse(r)
    \/ \E r \in 1..Len(runs) : BatchResponse(r)
    \/ \E r \in 1..Len(runs) : PatchResponse(r)

Spec == Init /\ [][Next]_vars

\* ------------------------------------------------------------ termination
\* the submission flow under transport failures, with retries and
\* cancellation
SubmitInit == Init /\ budget.kind \in {"export", "unreliable"}

SubmitNext ==
    \/ setRawData
    \/ continueToSubmit
    \/ startSubmission
    \/ retryFailed
    \/ cancelSubmission
    \/ downloadErrorsCSV
    \/ \E r \in 1..Len(runs) : ImportsPOST(r)
    \/ \E r \in 1..Len(runs) : BatchPOST(r)
    \/ \E r \in 1..Len(runs) : ImportPATCH(r)
    \/ \E r \in 1..Len(runs) : TransportFailure(r)
    \/ \E r \in 1..Len(runs) : ImportResponse(r)
    \/ \E r \in 1..Len(runs) : BatchResponse(r)
    \/ \E r \in 1..Len(runs) : PatchResponse(r)

\* every request of run r is eventually answered, by its handler or by a
\* failure, and the awaiting frame resumes when its promise settles
RunStep(r) ==
    /\ r \in 1..Len(runs)
    /\ \/ ImportsPOST(r) \/ BatchPOST(r) \/ ImportPATCH(r)
       \/ ImportResponse(r) \/ BatchResponse(r) \/ PatchResponse(r)

FairSpec ==
    SubmitInit /\ [][SubmitNext]_vars /\ \A r \in 1..MaxRuns : WF_vars(RunStep(r))

\* ===================================================================
\* Properties
\* ===================================================================
RunIds == 1..Len(runs)

\* a case-batch request of run r is outstanding
BatchOutstanding(r) == runs[r].pc \in {"batch_req", "batch_resp"}

\* run r has left its batch loop (the final PATCH has been issued)
LoopLeft(r) == runs[r].pc \in {"patch_req", "patch_resp", "done"} /\ runs[r].patch # "none"

\* ceil(n / 100)
CeilBatches(n) == IF n % 100 = 0 THEN n \div 100 ELSE (n \div 100) + 1

\* ---------------------------------------------------------------- C1
\* C1: once cancelSubmission has been requested while a run is in progress,
\* the batch request already in flight may finish but the run starts no
\* further batch request: the number of batch requests the run has issued
\* stays what it was when the cancellation was requested.
C1_NoBatchAfterCancel ==
    \A r \in RunIds :
        runs[r].cancelRequested => Len(runs[r].sent) = runs[r].sentAtCancel

\* ---------------------------------------------------------------- C2
\* C2: the final update of the import record of a run in which cancellation
\* was requested (before that update was issued) carries FAILED; COMPLETED is
\* sent only for a run in which no cancellation was requested.
C2_CancelledRunFinalizedFailed ==
    \A r \in RunIds :
        /\ (runs[r].patch # "none" /\ runs[r].patchCancelled) => runs[r].patch = "FAILED"
        /\ runs[r].patch = "COMPLETED" => ~runs[r].patchCancelled

\* ---------------------------------------------------------------- C3
\* C3: the rows a retry run sends are exactly the rows whose latest Batch
\* Result, matched by case identifier, was a failure when the retry started;
\* a row whose latest result is a success is never sent again.
C3_RetrySendsFailedSubsetOnly ==
    \A r \in RunIds :
        runs[r].retry =>
            /\ \A b \in 1..Len(runs[r].sent) :
                 \A k \in 1..Len(runs[r].sent[b].caseIds) :
                     runs[r].sent[b].caseIds[k] \in runs[r].failedBefore
            /\ (LoopLeft(r) /\ ~runs[r].isCancelled) =>
                 \A id \in runs[r].failedBefore :
                     (\E k \in 1..Len(rawData) : rawData[k].case_id = id) =>
                         \E b \in 1..Len(runs[r].sent) :
                             \E k \in 1..Len(runs[r].sent[b].caseIds) :
                                 runs[r].sent[b].caseIds[k] = id

\* ---------------------------------------------------------------- C4
\* C4: when the request of batch k fails as a whole, the step that handles
\* the failure appends one failed result with the retry-suggested message for
\* every row of batch k, in order, and nothing else (the results recorded
\* before stay as they were), and the run goes on: the next batch request is
\* issued if a batch is left, otherwise the final update.
C4_TransportFailureIsolated ==
    [][\A r \in RunIds :
         (runs[r].pc = "batch_resp" /\ ~runs[r].resp.ok /\ runs'[r].pc # "batch_resp") =>
            LET k == Len(runs[r].sent)
                ids == runs[r].sent[k].caseIds
                n == Len(batchResults)
            IN  /\ Len(batchResults') = n + Len(ids)
                /\ SubSeq(batchResults', 1, n) = batchResults
                /\ \A j \in 1..Len(ids) :
                     batchResults'[n + j] =
                        [success |-> FALSE, caseId |-> ids[j],
                         error |-> "Network error - please retry", id |-> 0]
                /\ IF k < CeilBatches(runs[r].errorFree)
                   THEN /\ runs'[r].pc = "batch_req"
                        /\ Len(runs'[r].sent) = k + 1
                   ELSE /\ runs'[r].pc = "patch_req"
                        /\ runs'[r].sent = runs[r].sent]_vars

\* batch 2 of 3 failed at the transport level, its 100 rows are recorded as
\* failed after the 100 results of batch 1, and batch 3 is outstanding
C4_Witness ==
    \E r \in RunIds :
        /\ runs[r].pc = "batch_req"
        /\ Len(runs[r].sent) = 3
        /\ Len(batchResults) = 2 * BATCH_SIZE
        /\ batchResults[BATCH_SIZE].error # "Network error - please retry"
        /\ \A j \in (BATCH_SIZE + 1)..(2 * BATCH_SIZE) :
             /\ ~batchResults[j].success
             /\ batchResults[j].error = "Network error - please retry"

\* ---------------------------------------------------------------- C5
\* C5: a run in which no cancellation was requested issues exactly
\* ceil(n/100) batch requests for its n error-free rows, batch i holding the
\* error-free rows at the positions [100*i, min(100*(i+1), n)).
C5_BatchPartition ==
    \A r \in RunIds :
        (LoopLeft(r) /\ ~runs[r].patchCancelled) =>
            LET n == runs[r].errorFree
            IN  /\ Len(runs[r].sent) = CeilBatches(n)
                /\ \A b \in 1..Len(runs[r].sent) :
                     LET lo == 100 * (b - 1)
                         hi == IF 100 * b < n THEN 100 * b ELSE n
                     IN  /\ Len(runs[r].sent[b].caseIds) = hi - lo
                         /\ \A k \in 1..(hi - lo) :
                              runs[r].sent[b].caseIds[k] = runs[r].validRows[lo + k].case_id

\* ---------------------------------------------------------------- C6
\* C6: at every moment at most one case-batch request is outstanding, and a
\* run whose request of batch i+1 is outstanding has recorded the outcome of
\* every row of the batches up to i.
C6_OneRequestAtATime ==
    /\ Cardinality({r \in RunIds : BatchOutstanding(r)}) <= 1
    /\ \A r \in RunIds :
         BatchOutstanding(r) =>
            runs[r].successCount + runs[r].failedCount = 100 * (Len(runs[r].sent) - 1)

\* ---------------------------------------------------------------- C7
\* C7: every batch request a run has issued carries the identifier of the
\* import record that the run's own creation request produced on the server
\* and that the run received; a run whose creation failed has issued no batch
\* request.
C7_ImportRecordFirst ==
    \A r \in RunIds :
        /\ \A b \in 1..Len(runs[r].sent) :
             /\ runs[r].sent[b].importId # 0
             /\ runs[r].sent[b].importId = runs[r].created
             /\ runs[r].sent[b].importId \in 1..Len(imports)
        /\ runs[r].importRecord = 0 => runs[r].sent = <<>>
        /\ (runs[r].pc = "import_resp" /\ ~runs[r].resp.ok) => runs[r].sent = <<>>

\* one run ended because its creation request failed, without a batch; a
\* later run has issued a batch request tagged with its import record
C7_Witness ==
    \E r1 \in RunIds, r2 \in RunIds :
        /\ runs[r1].pc = "done" /\ runs[r1].importRecord = 0 /\ runs[r1].sent = <<>>
        /\ runs[r2].pc = "batch_req" /\ runs[r2].sent[1].importId = runs[r2].created

\* ---------------------------------------------------------------- C8
\* C8: the rows a run submits are exactly the rows that no entry of the
\* validation error set refers to at the moment the run starts, in row
\* order; every batch request of the run takes its rows from them.
C8_SubmittableIffErrorFree ==
    [][/\ (Len(runs') = Len(runs) + 1) =>
            runs'[Len(runs')].validRows =
                SelectSeq(rawData,
                          LAMBDA row : \A e \in 1..Len(validationErrors) :
                                          validationErrors[e].row # row._rowIndex)
       /\ \A r \in RunIds :
            /\ runs'[r].validRows = runs[r].validRows
            /\ Len(runs'[r].sent) > Len(runs[r].sent) =>
                 \A k \in 1..Len(runs'[r].sent[Len(runs'[r].sent)].caseIds) :
                    \E j \in 1..Len(runs[r].validRows) :
                       runs[r].validRows[j].case_id =
                           runs'[r].sent[Len(runs'[r].sent)].caseIds[k]]_vars

\* a run is submitting the rows of a row set in which, after a cell edit,
\* some row has a validation error: the row with the error is not in the
\* batch and every other row is
C8_Witness ==
    \E r \in RunIds :
        /\ runs[r].pc = "batch_req"
        /\ budget.edits < MaxEdits
        /\ validationErrors # <<>>
        /\ Len(runs[r].sent[1].caseIds) = Len(rawData) - 1
        /\ \E k \in 1..Len(rawData) :
             /\ validationErrors[1].row = rawData[k]._rowIndex
             /\ \A j \in 1..Len(runs[r].sent[1].caseIds) :
                  runs[r].sent[1].caseIds[j] # rawData[k].case_id

\* ---------------------------------------------------------------- C9
\* C9: the step in which a run records the outcome of its last batch leaves
\* progress.processed = progress.total = the number of error-free rows and
\* currentBatch = totalBatches = ceil(total/100), whatever the outcomes were.
C9_ProgressComplete ==
    [][\A r \in RunIds :
         (/\ runs[r].pc = "batch_resp"
          /\ runs'[r].pc # "batch_resp"
          /\ Len(runs[r].sent) = CeilBatches(runs[r].errorFree)) =>
            /\ progress' # NoProgress
            /\ progress'.processed = runs[r].errorFree
            /\ progress'.total = runs[r].errorFree
            /\ progress'.currentBatch = CeilBatches(runs[r].errorFree)
            /\ progress'.totalBatches = progress'.currentBatch
            /\ progress'.success + progress'.failed = progress'.processed]_vars

\* a run of three batches has ended its loop after one row was rejected by
\* the server, one batch failed at the transport level and the rest succeeded
C9_Witness ==
    \E r \in RunIds :
        /\ runs[r].pc = "patch_req"
        /\ Len(runs[r].sent) = 3
        /\ progress # NoProgress
        /\ progress.processed = runs[r].errorFree
        /\ progress.currentBatch = 3
        /\ progress.failed = BATCH_SIZE + 1
        /\ progress.success > 0
        /\ \E k \in 1..Len(batchResults) :
             ~batchResults[k].success /\ batchResults[k].error = "Case with ID already exists"

\* --------------------------------------------------------------- C10
\* C10: the import record of every finished run that obtained one has been
\* updated with the run's aggregate success and failure counts and a
\* terminal status; it is not left in PROCESSING.
C10_ImportRecordFinalized ==
    \A r \in RunIds :
        (runs[r].pc = "done" /\ runs[r].importRecord # 0) =>
            /\ imports[runs[r].importRecord].status \in {"COMPLETED", "FAILED"}
            /\ imports[runs[r].importRecord].successCount = runs[r].successCount
            /\ imports[runs[r].importRecord].failureCount = runs[r].failedCount

\* --------------------------------------------------------------- C11
\* C11: in every state the validation error set is the validator's result
\* for the current row set; no error of an earlier row set is left after
\* setRawData, updateRow or updateMultipleRows.
C11_ErrorsOfCurrentRows ==
    validationErrors = validateData(rawData)

\* the toolbar has trimmed the padded case id of the first row of a file
\* whose last row keeps its errors: the error of the first row is gone, the
\* errors of the last row are listed
C11_Witness ==
    /\ fixed.op = "trimWhitespace"
    /\ fixed.count > 0
    /\ Len(rawData) = 4
    /\ rawData[1].case_id = CaseIdOf(0)
    /\ rawData[3].category = FOO
    /\ \A e \in 1..Len(validationErrors) : validationErrors[e].row # 0
    /\ \E e \in 1..Len(validationErrors) : validationErrors[e].row = 2

\* --------------------------------------------------------------- C12
\* the messages CaseSchema gives on case_id; any other error on case_id is a
\* duplicate error
CaseIdIssueMessages == {"Case ID is required", "Case ID must be alphanumeric with hyphens"}

\* C12: for every row with a non-empty case_id, the row carries no duplicate
\* error if no earlier row has the same case_id, and otherwise exactly one
\* duplicate error on case_id, whose message names the 1-based position of
\* the first row with that case_id.
C12_DuplicatesNameFirstOccurrence ==
    LET n == Len(rawData)
        DupErrors(k) ==
            {e \in 1..Len(validationErrors) :
                /\ validationErrors[e].row = k - 1
                /\ validationErrors[e].field = "case_id"
                /\ validationErrors[e].message \notin CaseIdIssueMessages}
        \* when all case ids differ every row is the first with its id
        allDistinct == Cardinality({rawData[k].case_id : k \in 1..n}) = n
        First(k) == CHOOSE j \in 1..k :
                        /\ rawData[j].case_id = rawData[k].case_id
                        /\ \A i \in 1..(j - 1) : rawData[i].case_id # rawData[k].case_id
    IN  \A k \in 1..n :
            rawData[k].case_id # <<>> =>
                IF allDistinct \/ First(k) = k
                THEN DupErrors(k) = {}
                ELSE /\ Cardinality(DupErrors(k)) = 1
                     /\ \A e \in DupErrors(k) :
                          validationErrors[e].message =
                              "Duplicate case ID (first seen at row "
                                  \o ToString(First(k)) \o ")"

\* a row set in which three rows hold the same case id: the first has no
\* error on case_id, the second and the third each have one
C12_Witness ==
    /\ Len(rawData) >= 3
    /\ rawData[1].case_id # <<>>
    /\ rawData[2].case_id = rawData[1].case_id
    /\ rawData[3].case_id = rawData[1].case_id
    /\ \A e \in 1..Len(validationErrors) : validationErrors[e].row # 0
    /\ \E e \in 1..Len(validationErrors) :
          validationErrors[e].row = 1 /\ validationErrors[e].field = "case_id"
    /\ \E e \in 1..Len(validationErrors) :
          validationErrors[e].row = 2 /\ validationErrors[e].field = "case_id"

\* --------------------------------------------------------------- C13
\* the declaration order of the fields
FieldOrder == <<"case_id", "applicant_name", "dob", "email", "phone", "category", "priority">>

FieldRank(f) == CHOOSE i \in 1..Len(FieldOrder) : FieldOrder[i] = f

\* C13: the error list is the same whenever the same row set is validated,
\* and it is ordered by row index ascending and, within one row, by the
\* declaration order of the fields (case_id, applicant_name, dob, email,
\* phone, category, priority).
C13_ErrorsInRowAndFieldOrder ==
    /\ validateData(rawData) = validateData(rawData)
    /\ \A e \in 1..(Len(validationErrors) - 1) :
          \/ validationErrors[e].row < validationErrors[e + 1].row
          \/ /\ validationErrors[e].row = validationErrors[e + 1].row
             /\ FieldRank(validationErrors[e].field)
                    <= FieldRank(validationErrors[e + 1].field)

\* --------------------------------------------------------------- C14
\* C14: a row whose phone is non-empty and has no E.164 form has a
\* validation error on the phone field and is not among the submittable
\* rows; a row with an empty phone has no error on the phone field.
C14_UnnormalizablePhoneIsError ==
    \A k \in 1..Len(rawData) :
        LET PhoneErrors == {e \in 1..Len(validationErrors) :
                               /\ validationErrors[e].row = k - 1
                               /\ validationErrors[e].field = "phone"}
        IN  IF rawData[k].phone = <<>> THEN PhoneErrors = {}
            ELSE normalizePhone(rawData[k].phone) = NULL =>
                    /\ PhoneErrors # {}
                    /\ \A j \in 1..Len(validRows(rawData, validationErrors)) :
                          validRows(rawData, validationErrors)[j]._rowIndex
                              # rawData[k]._rowIndex

\* --------------------------------------------------------------- C15
\* the number of cells in which the row sets a and b differ
CellsChanged(a, b) ==
    Cardinality({<<k, f>> \in (1..Len(a)) \X {FieldOrder[i] : i \in 1..Len(FieldOrder)} :
                    a[k][f] # b[k][f]})

\* the four operations applied one after the other, each computing its
\* updates from the row set the previous one left
SequentialFix(data) ==
    LET r1 == ApplyFix(data, trimUpdates(data))
        r2 == ApplyFix(r1, titleCaseUpdates(r1))
        r3 == ApplyFix(r2, normalizePhonesUpdates(r2))
        r4 == ApplyFix(r3, defaultPriorityUpdates(r3))
    IN  [rows |-> r4,
         count |-> CellsChanged(data, r1) + CellsChanged(r1, r2)
                       + CellsChanged(r2, r3) + CellsChanged(r3, r4)]

\* C15: a fixAll step leaves the rows that trimming, title-casing, phone
\* normalization and the priority default leave when each reads the result of
\* the one before, and the total it returns is the number of cells those
\* four steps changed.
C15_FixAllIsSequential ==
    [][fixAll => /\ rawData' = SequentialFix(rawData).rows
                 /\ fixed'.count = SequentialFix(rawData).count]_vars

\* --------------------------------------------------------------- C16
\* C16: a trimWhitespace step leaves no row with white space at the start or
\* the end of case_id, applicant_name, email or phone; it keeps the number of
\* rows, the row indices and every other field; the count it returns is the
\* number of cells whose value changed; trimming the result again changes
\* no cell.
C16_TrimWhitespace ==
    [][trimWhitespace =>
         /\ Len(rawData') = Len(rawData)
         /\ \A k \in 1..Len(rawData) :
              /\ rawData'[k]._rowIndex = rawData[k]._rowIndex
              /\ \A f \in {"dob", "category", "priority"} : rawData'[k][f] = rawData[k][f]
              /\ \A i \in 1..Len(TrimFields) :
                   LET v == rawData'[k][TrimFields[i]]
                   IN  v # <<>> => v[1] \notin Whitespace /\ v[Len(v)] \notin Whitespace
         /\ fixed'.count = CellsChanged(rawData, rawData')
         /\ CellsChanged(rawData', FixResult(rawData', trimUpdates(rawData')).rows) = 0
         /\ FixResult(rawData', trimUpdates(rawData')).count = 0]_vars

\* trimWhitespace has changed the three padded cells of the first row
C16_Witness ==
    /\ fixed = [op |-> "trimWhitespace", count |-> 3]
    /\ rawData[1].case_id = CaseIdOf(0)
    /\ rawData[1].applicant_name = <<"J", "o", " ", "D", "o">>
    /\ rawData[1].phone = <<"+", "9", "1", "9", "8", "7", "6", "5", "4", "3", "2", "1", "0">>

\* --------------------------------------------------------------- C17
\* the error message of the latest entry of results for the case id
LatestError(results, caseId) ==
    LET at == CHOOSE k \in 1..Len(results) :
                  /\ results[k].caseId = caseId
                  /\ \A j \in (k + 1)..Len(results) : results[j].caseId # caseId
    IN  results[at].error

\* the rows whose latest Batch Result is a failure, in row order, each with
\* the message of that result
CurrentlyFailed(rows, results) ==
    LET failedRows == SelectSeq(rows, LAMBDA row : row.case_id \in LatestFailed(results))
    IN  [k \in 1..Len(failedRows) |->
            [row |-> failedRows[k],
             error |-> LatestError(results, failedRows[k].case_id)]]

\* C17: a downloadErrorsCSV step writes one line for each row whose latest
\* Batch Result is a failure and no other line, each line with the error
\* message of that latest result.
C17_ExportIsCurrentlyFailedRows ==
    [][downloadErrorsCSV => exported' = CurrentlyFailed(rawData, batchResults)]_vars

\* --------------------------------------------------------------- C18
\* C18: when a file is given to the dropzone whose name does not end in
\* ".csv" or whose size is above 50MB, an error is reported, nothing is
\* parsed and the session (rows, filename, errors, results, progress) stays
\* as it was; any other file, one of exactly 50MB included, is not rejected
\* and becomes the row set.
C18_BadFileRejectedUnparsed ==
    [][/\ parseFileRejected => UNCHANGED <<storeVars, step>>
       /\ (dropzone' # dropzone /\ dropzone' # NoFile) =>
            IF \/ ~EndsWithCsv(dropzone'.name)
               \/ dropzone'.size > 50 * 1024 * 1024
            THEN /\ dropzone'.error # ""
                 /\ UNCHANGED <<storeVars, step>>
            ELSE /\ dropzone'.error = ""
                 /\ rawData' # <<>>
                 /\ filename' = dropzone'.name
                 /\ step' = "review"]_vars

\* a file of one byte more than 50MB with an accepted name has been
\* rejected: the reason is shown and the session is still the initial one
C18_Witness ==
    /\ dropzone = [error |-> "File size must be less than 50MB",
                   name |-> CSV_NAME, size |-> MAX_FILE_SIZE + 1]
    /\ step = "upload"
    /\ rawData = <<>>
    /\ filename = NULL

\* --------------------------------------------------------------- C19
\* results answers the cases one by one: as many results as cases, result i
\* with the case id of case i, and with a created id iff it reports success
AnswersInOrder(results, caseIds) ==
    /\ Len(results) = Len(caseIds)
    /\ \A i \in 1..Len(results) :
          /\ results[i].caseId = caseIds[i]
          /\ results[i].success <=> results[i].id # 0

\* C19: every 200 response of POST /api/cases/batch, to the import page and
\* to an API client, holds exactly one result per case of the request, in
\* the order of the request, result i echoing the case id of case i and
\* carrying a created id iff it reports success.
C19_ResultsInRequestOrder ==
    /\ (apiResponse.route = "POST /api/cases/batch" /\ apiResponse.status = 200) =>
          AnswersInOrder(apiResponse.results,
                         [i \in 1..Len(apiResponse.request.cases) |->
                             apiResponse.request.cases[i].caseId])
    /\ \A r \in RunIds :
          (runs[r].pc = "batch_resp" /\ runs[r].resp.ok) =>
              AnswersInOrder(runs[r].resp.results,
                             [i \in 1..Len(BatchSlice(runs[r], runs[r].i)) |->
                                 BatchSlice(runs[r], runs[r].i)[i].case_id])

\* an API client has posted the same case twice in one request: the first
\* result reports the created case, the second the existing case id
C19_Witness ==
    /\ apiResponse.route = "POST /api/cases/batch"
    /\ apiResponse.status = 200
    /\ Len(apiResponse.request.cases) = 2
    /\ apiResponse.request.cases[1].caseId = apiResponse.request.cases[2].caseId
    /\ apiResponse.results[1].success
    /\ ~apiResponse.results[2].success
    /\ apiResponse.results[2].caseId = apiResponse.request.cases[2].caseId

\* --------------------------------------------------------------- C20
\* C20: a request of 1 to 100 cases is answered case by case: a case that
\* fails the server's validation or whose case id exists gets a failed
\* result of its own, every other case is created and gets a success
\* result; the import page appends the results of a response to the Batch
\* Results as they are.
C20_RowFailureIsolated ==
    [][/\ (/\ apiResponse' # apiResponse
           /\ apiResponse'.route = "POST /api/cases/batch"
           /\ Authenticated(apiResponse'.session)
           /\ Len(apiResponse'.request.cases) \in 1..100
           /\ apiResponse'.request.importId = 0) =>
             LET req == apiResponse'.request.cases
                 res == apiResponse'.results
                 Fails(i) == \/ CaseSchemaIssues(req[i]) # <<>>
                             \/ req[i].caseId \in cases
                             \/ \E j \in 1..(i - 1) :
                                   /\ req[j].caseId = req[i].caseId
                                   /\ CaseSchemaIssues(req[j]) = <<>>
             IN  /\ apiResponse'.status = 200
                 /\ Len(res) = Len(req)
                 /\ \A i \in 1..Len(req) :
                       /\ res[i].caseId = req[i].caseId
                       /\ res[i].success <=> ~Fails(i)
                       /\ ~res[i].success => res[i].error # ""
                 /\ cases' = cases \cup {req[i].caseId : i \in {j \in 1..Len(req) : ~Fails(j)}}
       /\ \A r \in RunIds :
             (/\ runs[r].pc = "batch_resp"
              /\ runs[r].resp.ok
              /\ runs'[r].pc # "batch_resp") =>
                 batchResults' = batchResults \o runs[r].resp.results]_vars

\* ---------------------------------------------------------------- C22
\* the routes the API clients call
ApiRoutes ==
    {"GET /api/cases", "POST /api/cases", "POST /api/cases/batch",
     "GET /api/cases/[id]", "PATCH /api/cases/[id]", "DELETE /api/cases/[id]",
     "POST /api/cases/[id]/notes", "GET /api/imports", "POST /api/imports",
     "GET /api/imports/[id]", "PATCH /api/imports/[id]"}

\* C22: every API handler (cases list and create, batch create, case get,
\* update and delete, add note, imports list and create, import get and
\* update) that is called without an authenticated session answers 401 and
\* writes nothing: the tables Case and Import, the numbers of CaseHistory,
\* CaseNote and AuditLog rows and the stored case names stay as they were
C22_NoSessionNoWrite ==
    [][(budget.kind = "api" /\ budget'.runs < budget.runs
        /\ apiResponse'.session = NoSession) =>
          /\ apiResponse'.route \in ApiRoutes
          /\ apiResponse'.status = 401
          /\ cases' = cases
          /\ imports' = imports
          /\ journal' = journal]_vars

\* a request without a session asked to delete a case that exists, after an
\* import record and audit rows were written by authenticated requests
C22_Witness ==
    /\ apiResponse.route = "DELETE /api/cases/[id]"
    /\ apiResponse.session = NoSession
    /\ apiResponse.status = 401
    /\ apiResponse.request.id \in cases
    /\ journal.audit > 0

\* ---------------------------------------------------------------- C21
\* the requests that report the creation of the case caseId: a single
\* create answered 201, or a batch with a successful result for it
ReportsSuccess(h, caseId) ==
    \/ h.route = "POST /api/cases" /\ h.status = 201 /\ h.caseIds[1] = caseId
    \/ /\ h.route = "POST /api/cases/batch"
       /\ \E i \in 1..Len(h.results) : h.results[i].success /\ h.results[i].caseId = caseId

\* C21: under every interleaving of concurrent POST /api/cases/batch and
\* POST /api/cases handlers no two cases with the same caseId are stored (no
\* insert of a caseId the Case table holds, no caseId inserted twice), and at
\* most one result of at most one request reports success for a caseId
C21_NoDuplicateCaseIds ==
    /\ [](/\ \A i, j \in 1..Len(inflight.inserted) :
                i # j => inflight.inserted[i] # inflight.inserted[j]
          /\ \A caseId \in cases :
                /\ Cardinality({n \in 1..Len(inflight.handlers) :
                       ReportsSuccess(inflight.handlers[n], caseId)}) <= 1
                /\ \A n \in 1..Len(inflight.handlers) :
                      Cardinality({i \in 1..Len(inflight.handlers[n].results) :
                          /\ inflight.handlers[n].results[i].success
                          /\ inflight.handlers[n].results[i].caseId = caseId}) <= 1)
    /\ [][\A n \in 1..Len(inflight.handlers) :
             (inflight.handlers[n].pc = "create" /\ inflight'.handlers[n].pc # "create"
              /\ inflight'.inserted # inflight.inserted) =>
                 /\ inflight.handlers[n].caseIds[inflight.handlers[n].k] \notin cases
                 /\ inflight'.inserted =
                       Append(inflight.inserted,
                              inflight.handlers[n].caseIds[inflight.handlers[n].k])]_vars

\* two handlers found no case with the id, one created it, and the other
\* one's insert was refused by the unique index
C21_Witness ==
    \E n, m \in 1..Len(inflight.handlers) :
        /\ n # m
        /\ ReportsSuccess(inflight.handlers[n], CaseIdOf(1))
        /\ \/ inflight.handlers[m].status = 500
           \/ \E i \in 1..Len(inflight.handlers[m].results) :
                 /\ inflight.handlers[m].results[i].caseId = CaseIdOf(1)
                 /\ inflight.handlers[m].results[i].error = "Unique constraint failed"

\* ---------------------------------------------------------------- C23
\* the keys of a CSVRow
RowKeys ==
    {"_rowIndex", "case_id", "applicant_name", "dob", "email", "phone", "category",
     "priority"}

\* C23: after setRawData every row's positional index equals its position
\* and is unique; no updateRow or updateMultipleRows call on the editable
\* fields, nor any other step of the review, changes a row's index or the
\* number of rows; updateRow(rowIndex, field, value) changes only that field
\* of that row, and with an index that names no row it changes nothing
C23_RowIdentityStable ==
    /\ [](\A k \in 1..Len(rawData) : rawData[k]._rowIndex = k - 1)
    /\ [][(step = "review" /\ step' = "review") =>
             /\ Len(rawData') = Len(rawData)
             /\ \A k \in 1..Len(rawData) : rawData'[k]._rowIndex = rawData[k]._rowIndex]_vars
    /\ [][\A rowIndex \in 0..Len(rawData), w \in StoreWrites :
             callUpdateRow(rowIndex, w.field, w.value) =>
                /\ \A k \in 1..Len(rawData), key \in RowKeys :
                      rawData'[k][key] =
                         IF rawData[k]._rowIndex = rowIndex /\ key = w.field
                         THEN w.value ELSE rawData[k][key]
                /\ rowIndex = Len(rawData) => rawData' = rawData]_vars

\* the priority of the second of three rows was written, and nothing else
C23_Witness ==
    /\ budget.kind = "store"
    /\ Len(rawData) = SmallRows
    /\ rawData[2].priority = HIGH
    /\ rawData[1].priority = <<>>
    /\ rawData[3].priority = <<>>
    /\ \A k \in 1..Len(rawData) : rawData[k].case_id = CaseIdOf(k - 1)

\* ---------------------------------------------------------------- C24
\* C24: CaseSchema accepts a dob only if it parses as a date from 1900-01-01
\* to today, both included: a case with a future dob or a dob before 1900 is
\* answered 400, and an otherwise valid case without priority passes (it is
\* created, or refused only because its id exists) with priority LOW
C24_DobRangeAndDefaultPriority ==
    (apiResponse.route = "POST /api/cases" /\ apiResponse.session # NoSession) =>
        LET c == apiResponse.request
            date == DateParse(c.dob)
        IN  /\ apiResponse.status \in {201, 409} =>
                  date # NaN /\ date >= MinDate /\ date <= Today
            /\ (date = NaN \/ date < MinDate \/ date > Today) => apiResponse.status = 400
            /\ (c \in DatedCases /\ date # NaN /\ date >= MinDate /\ date <= Today) =>
                  apiResponse.status \in {201, 409}
            /\ (apiResponse.status = 201 /\ c.priority = NULL) =>
                  apiResponse.results[1].priority = LOW

\* a case born today and sent without priority was created with priority LOW
C24_Witness ==
    /\ apiResponse.route = "POST /api/cases"
    /\ apiResponse.status = 201
    /\ DateParse(apiResponse.request.dob) = Today
    /\ apiResponse.request.priority = NULL
    /\ apiResponse.results[1].priority = LOW
    /\ apiResponse.request.caseId \in cases

\* ---------------------------------------------------------------- C25
\* C25: the import session is cleared by "start new import" and by leaving
\* the import page: after either, the store holds no rows, filename,
\* validation errors, import identifier, progress or batch results
C25_SessionClearedOnLeave ==
    [][(handleStartNewImport \/ navigateAway) =>
          /\ rawData' = <<>>
          /\ filename' = NULL
          /\ validationErrors' = <<>>
          /\ importId' = 0
          /\ progress' = NoProgress
          /\ batchResults' = <<>>]_vars

\* ---------------------------------------------------------------- C26
\* the session run r was started in is gone: the store does not hold the
\* rows the run captured
Abandoned(r) ==
    \E k \in 1..Len(runs[r].validRows) :
        \A j \in 1..Len(rawData) : rawData[j] # runs[r].validRows[k]

\* C26: a run never writes into a later session: once clearImport or
\* setRawData has replaced the rows a run was started with, the steps in
\* which startSubmission resumes leave importId, progress, batchResults and
\* isSubmitting of the store as they are
C26_RunWritesOwnSessionOnly ==
    [][\A r \in 1..Len(runs) :
          ((ImportResponse(r) \/ BatchResponse(r) \/ PatchResponse(r)) /\ Abandoned(r)) =>
              UNCHANGED <<importId, progress, batchResults, isSubmitting>>]_vars

\* ---------------------------------------------------------------- C27
\* C27: a cancellation is scoped to the run in which it was requested: a
\* run in which no cancellation was requested, also one started after an
\* earlier run was cancelled, issues all of its batches and sends COMPLETED
\* with its final update of the import record
C27_CancelScopedToRun ==
    \A r \in RunIds :
        (LoopLeft(r) /\ ~runs[r].cancelRequested) =>
            /\ Len(runs[r].sent) = runs[r].totalBatches
            /\ runs[r].patch = "COMPLETED"

\* ---------------------------------------------------------------- C28
\* the results the step appends to the Batch Results
Recorded == SubSeq(batchResults', Len(batchResults) + 1, Len(batchResults'))

\* C28: client and server agree on what a batch request created: every row
\* the client records as a success has a case on the server, and the rows it
\* records as failed were not created by the request, so the request created
\* no more cases than the client records successes; in particular not when
\* the response is lost after the server processed the batch
C28_ClientAndServerAgree ==
    [][\A r \in RunIds :
          BatchResponse(r) =>
              /\ \A k \in 1..Len(Recorded) :
                    Recorded[k].success => Recorded[k].caseId \in cases
              /\ runs[r].casesCreated <= CountSuccess(Recorded)]_vars

\* ---------------------------------------------------------------- C29
\* C29: when a run in which no cancellation was requested has finalized its
\* import record (its final PATCH was answered OK), successCount plus
\* failureCount of the record equals its totalRows, and the two counts equal
\* progress.success and progress.failed of the client
C29_FinalCountsAgree ==
    [][\A r \in RunIds :
          (PatchResponse(r) /\ runs[r].resp.ok /\ ~runs[r].cancelRequested) =>
              LET rec == imports[runs[r].importRecord]
              IN  /\ rec.successCount + rec.failureCount = rec.totalRows
                  /\ progress # NoProgress
                  /\ rec.successCount = progress.success
                  /\ rec.failureCount = progress.failed]_vars

\* ---------------------------------------------------------------- C30
\* C30: every run of startSubmission terminates: when every request is
\* eventually answered or fails, a running run reaches its end and
\* isSubmitting returns to false, whether the creation of the import record,
\* a batch or the final update fails; the step that ends a run sets
\* isSubmitting to false, and a failed creation of the import record leaves
\* batchResults and progress as they were
C30_RunTerminates ==
    /\ (isSubmitting \/ \E r \in RunIds : Running(runs[r])) ~>
          (~isSubmitting /\ \A r \in RunIds : ~Running(runs[r]))
    /\ [][\A r \in 1..Len(runs) :
             /\ (Running(runs[r]) /\ ~Running(runs'[r])) => ~isSubmitting'
             /\ (ImportResponse(r) /\ ~runs[r].resp.ok) =>
                   UNCHANGED <<batchResults, progress, importId>>]_vars

\* a run has ended after the creation of its import record failed: the
\* store is left without progress and results, and isSubmitting is false
C30_Witness ==
    /\ Len(runs) >= 1
    /\ runs[1].pc = "done"
    /\ runs[1].importRecord = 0
    /\ ~isSubmitting
    /\ progress = NoProgress
    /\ batchResults = <<>>
    /\ budget.netFailures < MaxNetFailures

====
